---- MODULE Spec2Model ----
(***************************************************************************)
(* Stride: a career-coaching web application.                              *)
(*                                                                         *)
(* The model covers the relational store (profiles, user_skills,           *)
(* learning_paths, skill_roadmaps, topic_progress) with its constraints    *)
(* and row-level policies, the request handlers that proxy an LLM, and the *)
(* client components (Index, Onboarding, Dashboard, LearningModule) as     *)
(* asynchronous processes: every `await` of the source is a step boundary. *)
(***************************************************************************)
EXTENDS Integers, Sequences, FiniteSets, TLC

(***************************************************************************)
(* Bounds of the model.                                                    *)
(***************************************************************************)
MaxPaths == 3        \* longest "paths" array an LLM reply carries
MaxLoads == 2        \* fetchData runs started
MaxMounts == 1       \* times the user comes back to the Dashboard from the roadmaps
MaxClicks == 2       \* clicks on a path card
MaxNavigations == 2  \* clicks on Previous or Next
MaxResets == 1       \* confirmed resets

FetchRuns == {"f1", "f2"}       \* overlapping runs of Dashboard.fetchData
SelectRuns == {"s1", "s2"}      \* overlapping runs of Dashboard.handleSelectPath
\* runs are interchangeable: a new run takes the first free slot
Slot == [f1 |-> 1, f2 |-> 2, s1 |-> 1, s2 |-> 2, r1 |-> 1, r2 |-> 2, c1 |-> 1, c2 |-> 2]

VARIABLES
  profiles,        \* the signed-in user's row of public.profiles
  user_skills,     \* skill names of the user's rows of public.user_skills
  learning_paths,  \* the user's rows of public.learning_paths
  skill_roadmaps,  \* the user's rows of public.skill_roadmaps
  topic_progress,  \* the user's rows of public.topic_progress
  genCount,        \* number of bulk inserts into learning_paths so far
  toast,           \* title of the last toast shown
  index,           \* state of the Index page
  checkRun,        \* the run of Index.checkUserProfile
  dashboard,       \* state of the mounted Dashboard component
  fetchRun,        \* runs of Dashboard.fetchData / generatePaths
  selectRun,       \* runs of Dashboard.handleSelectPath
  resetRun,        \* the run of Dashboard.handleReset
  counters,        \* how many loads, clicks and resets happened
  learning,        \* state of the mounted LearningModule component
  contentRun,      \* runs of LearningModule.generateContent and checkCompletion
  sectionRun,      \* runs of LearningModule.handleSectionClick
  quizRun,         \* the run of LearningModule.startQuiz
  markRun,         \* the run of LearningModule.markAsComplete
  onboarding,      \* state of the Onboarding component
  resumeRun,       \* the run of Onboarding.handleResumeUpload
  submitRun,       \* the run of Onboarding.handleSubmit
  skillRoadmaps,   \* state of the mounted SkillRoadmaps component
  existingRun,     \* the run of SkillRoadmaps.fetchExistingRoadmaps
  roadmapRun,      \* runs of SkillRoadmaps.generateRoadmap
  otherUser,       \* the tables in which a second user has rows
  resetDataRun,    \* the run of the reset-data request handler
  auth             \* what useAuthContext gives Index: user, loading, and whether the
                   \* effect on [user, loading] has run since they changed

dbVars == <<profiles, user_skills, learning_paths, skill_roadmaps, topic_progress, genCount>>
dashVars == <<dashboard, fetchRun, selectRun, resetRun, counters>>
learnVars == <<learning, contentRun, sectionRun, quizRun, markRun>>
onbVars == <<onboarding, resumeRun, submitRun>>
roadVars == <<skillRoadmaps, existingRun, roadmapRun>>
serverVars == <<otherUser, resetDataRun, auth>>
vars == <<profiles, user_skills, learning_paths, skill_roadmaps, topic_progress,
          genCount, toast, index, checkRun, dashboard, fetchRun, selectRun,
          resetRun, counters, learning, contentRun, sectionRun, quizRun, markRun,
          onboarding, resumeRun, submitRun, skillRoadmaps, existingRun, roadmapRun,
          otherUser, resetDataRun, auth>>

(***************************************************************************)
(* The store.                                                              *)
(***************************************************************************)
\* the five tables; a second user has rows in each of them
Tables == {"profiles", "user_skills", "learning_paths", "skill_roadmaps", "topic_progress"}
IdleResetData == [pc |-> "idle"]

\* a user is signed in and the effect of Index has run for it
SignedIn == [user |-> TRUE, loading |-> FALSE, effectRun |-> TRUE]

PathTypes == {"recommended", "easier", "professional"}
pathOrder == <<"easier", "recommended", "professional">>
NoId == <<0, 0>>

\* rows of learning_paths a reply's entries become; is_selected DEFAULT false
PathRows(gen, entries) ==
  { [id |-> <<gen, i>>, path_type |-> entries[i].type,
     nskills |-> entries[i].nskills, is_selected |-> FALSE] : i \in DOMAIN entries }

\* the CHECK constraint on path_type
PathTypeCheck(entries) == \A i \in DOMAIN entries : entries[i].type \in PathTypes

\* ON DELETE CASCADE from learning_paths to skill_roadmaps to topic_progress
CascadeRoadmaps(paths, roadmaps) ==
  { r \in roadmaps : \E p \in paths : p.id = r.learning_path_id }
CascadeProgress(roadmaps, progress) ==
  { t \in progress : \E r \in roadmaps : r.id = t.roadmap_id }

\* rows of a select, in insertion order
RECURSIVE RowsInOrder(_)
RowsInOrder(rows) ==
  IF rows = {} THEN <<>>
  ELSE LET first == CHOOSE r \in rows :
                      \A q \in rows : \/ r.id[1] < q.id[1]
                                      \/ r.id[1] = q.id[1] /\ r.id[2] <= q.id[2]
       IN <<first>> \o RowsInOrder(rows \ {first})

(***************************************************************************)
(* generate-learning-paths handler.                                        *)
(***************************************************************************)
ReplyTypes == PathTypes \cup {"other"}
SkillCounts == {3, 8, 9}
Entries == [type : ReplyTypes, nskills : SkillCounts]

Range(s) == { s[i] : i \in DOMAIN s }

RECURSIVE SeqsUpTo(_, _)
SeqsUpTo(S, n) ==
  IF n = 0 THEN {<<>>}
  ELSE LET shorter == SeqsUpTo(S, n - 1)
       IN shorter \cup { Append(q, x) : q \in {s \in shorter : Len(s) = n - 1}, x \in S }

\* what the upstream LLM call can produce
UpstreamFailures ==
  { [ok |-> FALSE, text |-> FALSE, json |-> FALSE, hasPaths |-> FALSE, paths |-> <<>>],
    [ok |-> TRUE,  text |-> FALSE, json |-> FALSE, hasPaths |-> FALSE, paths |-> <<>>],
    [ok |-> TRUE,  text |-> TRUE,  json |-> FALSE, hasPaths |-> FALSE, paths |-> <<>>],
    [ok |-> TRUE,  text |-> TRUE,  json |-> TRUE,  hasPaths |-> FALSE, paths |-> <<>>] }
UpstreamWithPaths(ps) ==
  [ok |-> TRUE, text |-> TRUE, json |-> TRUE, hasPaths |-> TRUE, paths |-> ps]
AllUpstream ==
  UpstreamFailures \cup { UpstreamWithPaths(ps) : ps \in SeqsUpTo(Entries, MaxPaths) }
WellFormedPaths ==
  << [type |-> "recommended", nskills |-> 4], [type |-> "easier", nskills |-> 4],
     [type |-> "professional", nskills |-> 8] >>
DashboardUpstream == UpstreamFailures \cup { UpstreamWithPaths(WellFormedPaths) }

\* the handler: status and body of its answer
GeneratePathsHandler(keyConfigured, up) ==
  IF ~keyConfigured THEN [status |-> 500, json |-> TRUE, hasPaths |-> FALSE, paths |-> <<>>]
  ELSE IF ~up.ok THEN [status |-> 500, json |-> TRUE, hasPaths |-> FALSE, paths |-> <<>>]
  ELSE IF ~up.text THEN [status |-> 500, json |-> TRUE, hasPaths |-> FALSE, paths |-> <<>>]
  ELSE [status |-> 200, json |-> up.json, hasPaths |-> up.hasPaths, paths |-> up.paths]

\* supabase.functions.invoke: a non-2xx status or an unparsable body is an error
InvokeResult(answer) ==
  IF answer.status # 200 \/ ~answer.json
    THEN [error |-> TRUE, hasPaths |-> FALSE, paths |-> <<>>]
    ELSE [error |-> FALSE, hasPaths |-> answer.hasPaths, paths |-> answer.paths]

(***************************************************************************)
(* Dashboard: formatting of the paths shown.                               *)
(***************************************************************************)
FormatPaths(rowSeq) ==
  [i \in DOMAIN rowSeq |-> [id |-> rowSeq[i].id, type |-> rowSeq[i].path_type,
                            is_selected |-> rowSeq[i].is_selected]]

\* .sort((a, b) => pathOrder.indexOf(a.type) - pathOrder.indexOf(b.type)), stable
SortByPathOrder(ps) ==
  SelectSeq(ps, LAMBDA p : p.type = pathOrder[1]) \o
  SelectSeq(ps, LAMBDA p : p.type = pathOrder[2]) \o
  SelectSeq(ps, LAMBDA p : p.type = pathOrder[3])

\* formattedPaths.find(p => p.type === 'recommended') || formattedPaths[0]
RecommendedOrFirst(ps) ==
  LET rec == SelectSeq(ps, LAMBDA p : p.type = "recommended")
  IN IF rec # <<>> THEN rec[1].id ELSE IF ps # <<>> THEN ps[1].id ELSE NoId

\* formattedPaths.find((p) => p.is_selected), then the default above
\* fetchData without formattedPaths.find((p) => p.is_selected)
SelectedOnLoadByType(formattedPaths) == RecommendedOrFirst(formattedPaths)

SelectedOnLoad(formattedPaths) ==
  LET sel == SelectSeq(formattedPaths, LAMBDA p : p.is_selected)
  IN IF sel # <<>> THEN sel[1].id ELSE RecommendedOrFirst(formattedPaths)

DashboardMounted == [mount |-> 0, paths |-> <<>>, isLoading |-> TRUE,
                     isGenerating |-> FALSE, selectedPath |-> NoId]
IdleFetch == [pc |-> "idle", mount |-> 0, dream_job |-> <<>>, generated |-> <<>>, outcome |-> "none", gen |-> 0]
IdleSelect == [pc |-> "idle", mount |-> 0, path |-> NoId]
IdleReset == [pc |-> "idle", isFullWipe |-> FALSE]

\* a state update reaches the component only while the instance that started the run is mounted
Mounted(run) == index.view = "dashboard" /\ ~index.isCheckingProfile /\ run.mount = dashboard.mount
SetDashboard(run, upd) == IF Mounted(run) THEN upd ELSE dashboard

(***************************************************************************)
(* Dashboard.fetchData and generatePaths.                                  *)
(***************************************************************************)
\* useEffect [user]: a run of fetchData starts
FetchStart(f) ==
  /\ index.view = "dashboard" /\ ~index.isCheckingProfile
  /\ fetchRun[f].pc \in {"idle", "done"}
  /\ \A g \in FetchRuns : Slot[g] < Slot[f] => fetchRun[g].pc \notin {"idle", "done"}
  /\ counters.loads < MaxLoads
  /\ fetchRun' = [fetchRun EXCEPT ![f] = [IdleFetch EXCEPT !.pc = "profile", !.mount = dashboard.mount]]
  /\ counters' = [counters EXCEPT !.loads = @ + 1]
  /\ UNCHANGED <<learnVars, onbVars>>
  /\ UNCHANGED <<dbVars, toast, index, checkRun, dashboard, selectRun, resetRun>>
  /\ UNCHANGED <<roadVars, serverVars>>

\* select from profiles
FetchProfile(f) ==
  /\ fetchRun[f].pc = "profile"
  /\ fetchRun' = [fetchRun EXCEPT ![f].pc = "paths",
                                  ![f].dream_job = IF profiles.exists THEN profiles.dream_job ELSE <<>>]
  /\ UNCHANGED <<learnVars, onbVars>>
  /\ UNCHANGED <<dbVars, toast, index, checkRun, dashboard, selectRun, resetRun, counters>>
  /\ UNCHANGED <<roadVars, serverVars>>

\* select from learning_paths; stored paths are shown, otherwise generatePaths begins
FetchPaths(f) ==
  /\ fetchRun[f].pc = "paths"
  /\ LET run == fetchRun[f]
         pathsData == RowsInOrder(learning_paths)
         formattedPaths == SortByPathOrder(FormatPaths(pathsData))
     IN IF pathsData # <<>>
          THEN /\ dashboard' = SetDashboard(run,
                     [dashboard EXCEPT !.paths = formattedPaths,
                                       !.selectedPath = SelectedOnLoad(formattedPaths),
                                       !.isLoading = FALSE])
               /\ fetchRun' = [fetchRun EXCEPT ![f].pc = "done", ![f].outcome = "loaded"]
          ELSE IF run.dream_job = <<>>
          THEN /\ dashboard' = SetDashboard(run, [dashboard EXCEPT !.isLoading = FALSE])
               /\ fetchRun' = [fetchRun EXCEPT ![f].pc = "done", ![f].outcome = "skipped"]
          ELSE /\ dashboard' = SetDashboard(run, [dashboard EXCEPT !.isGenerating = TRUE])
               /\ fetchRun' = [fetchRun EXCEPT ![f].pc = "skills"]
  /\ UNCHANGED <<learnVars, onbVars>>
  /\ UNCHANGED <<dbVars, toast, index, checkRun, selectRun, resetRun, counters>>
  /\ UNCHANGED <<roadVars, serverVars>>

\* select skill_name from user_skills
FetchSkills(f) ==
  /\ fetchRun[f].pc = "skills"
  /\ fetchRun' = [fetchRun EXCEPT ![f].pc = "invoke"]
  /\ UNCHANGED <<learnVars, onbVars>>
  /\ UNCHANGED <<dbVars, toast, index, checkRun, dashboard, selectRun, resetRun, counters>>
  /\ UNCHANGED <<roadVars, serverVars>>

GenFailedRetrying(f) ==
  /\ toast' = "Error generating paths"
  /\ dashboard' = SetDashboard(fetchRun[f], [dashboard EXCEPT !.isGenerating = FALSE, !.isLoading = FALSE])
  /\ fetchRun' = [fetchRun EXCEPT ![f].pc = "invoke", ![f].outcome = "failed", ![f].generated = <<>>]
  /\ UNCHANGED <<roadVars, serverVars>>

\* the catch and finally blocks of generatePaths, then the finally block of fetchData
GenFailed(f) ==
  /\ toast' = "Error generating paths"
  /\ dashboard' = SetDashboard(fetchRun[f], [dashboard EXCEPT !.isGenerating = FALSE, !.isLoading = FALSE])
  /\ fetchRun' = [fetchRun EXCEPT ![f].pc = "done", ![f].outcome = "failed", ![f].generated = <<>>]
  /\ UNCHANGED <<roadVars, serverVars>>

\* the answer of the generate-learning-paths handler arrives
GenInvoke(f, keyConfigured, up) ==
  /\ fetchRun[f].pc = "invoke"
  /\ LET response == InvokeResult(GeneratePathsHandler(keyConfigured, up))
     IN IF response.error \/ ~response.hasPaths
          THEN GenFailed(f)
          ELSE /\ fetchRun' = [fetchRun EXCEPT ![f].pc = "insert", ![f].generated = response.paths]
               /\ UNCHANGED <<toast, dashboard>>
  /\ UNCHANGED <<learnVars, onbVars>>
  /\ UNCHANGED <<dbVars, index, checkRun, selectRun, resetRun, counters>>
  /\ UNCHANGED <<roadVars, serverVars>>

\* insert into learning_paths, then show the inserted paths
GenInsert(f) ==
  /\ fetchRun[f].pc = "insert"
  /\ LET run == fetchRun[f]
         rows == PathRows(genCount + 1, run.generated)
         shown == SortByPathOrder(FormatPaths(RowsInOrder(rows)))
     IN IF ~PathTypeCheck(run.generated)
          THEN GenFailed(f) /\ UNCHANGED <<learning_paths, genCount>>
          ELSE /\ learning_paths' = learning_paths \cup rows
               /\ genCount' = genCount + 1
               /\ dashboard' = SetDashboard(run,
                     [dashboard EXCEPT !.paths = shown,
                                       !.selectedPath = IF shown # <<>> THEN RecommendedOrFirst(shown) ELSE @,
                                       !.isGenerating = FALSE, !.isLoading = FALSE])
               /\ fetchRun' = [fetchRun EXCEPT ![f].pc = "done", ![f].outcome = "generated",
                                               ![f].gen = genCount + 1]
               /\ UNCHANGED toast
  /\ UNCHANGED <<learnVars, onbVars>>
  /\ UNCHANGED <<profiles, user_skills, skill_roadmaps, topic_progress, index, checkRun,
                 selectRun, resetRun, counters>>
  /\ UNCHANGED <<roadVars, serverVars>>

(***************************************************************************)
(* Dashboard.handleSelectPath.                                             *)
(***************************************************************************)
DashboardShown == index.view = "dashboard" /\ ~index.isCheckingProfile
                    /\ ~dashboard.isLoading /\ ~dashboard.isGenerating

\* a click on the card of a shown path
SelectClick(s, i) ==
  /\ DashboardShown
  /\ i \in DOMAIN dashboard.paths
  /\ selectRun[s].pc = "idle"
  /\ \A t \in SelectRuns : Slot[t] < Slot[s] => selectRun[t].pc # "idle"
  /\ counters.clicks < MaxClicks
  /\ selectRun' = [selectRun EXCEPT ![s] = [pc |-> "deselect", mount |-> dashboard.mount,
                                             path |-> dashboard.paths[i].id]]
  /\ counters' = [counters EXCEPT !.clicks = @ + 1]
  /\ UNCHANGED <<learnVars, onbVars>>
  /\ UNCHANGED <<dbVars, toast, index, checkRun, dashboard, fetchRun, resetRun>>
  /\ UNCHANGED <<roadVars, serverVars>>

\* update learning_paths set is_selected = false where user_id = user.id
SelectDeselect(s) ==
  /\ selectRun[s].pc = "deselect"
  /\ learning_paths' = { [r EXCEPT !.is_selected = FALSE] : r \in learning_paths }
  /\ selectRun' = [selectRun EXCEPT ![s].pc = "select"]
  /\ UNCHANGED <<learnVars, onbVars>>
  /\ UNCHANGED <<profiles, user_skills, skill_roadmaps, topic_progress, genCount, toast,
                 index, checkRun, dashboard, fetchRun, resetRun, counters>>
  /\ UNCHANGED <<roadVars, serverVars>>

\* update learning_paths set is_selected = true where id = path.id; then
\* setSelectedPath(path) and onSelectPath(path), which is Index.handleSelectPath
SelectSelect(s) ==
  /\ selectRun[s].pc = "select"
  /\ learning_paths' = { IF r.id = selectRun[s].path THEN [r EXCEPT !.is_selected = TRUE] ELSE r
                           : r \in learning_paths }
  /\ index' = [index EXCEPT !.selectedPath = selectRun[s].path, !.view = "roadmaps"]
  /\ dashboard' = SetDashboard(selectRun[s], [dashboard EXCEPT !.selectedPath = selectRun[s].path])
  /\ selectRun' = [selectRun EXCEPT ![s] = IdleSelect]
  /\ UNCHANGED <<learnVars, onbVars>>
  /\ UNCHANGED <<profiles, user_skills, skill_roadmaps, topic_progress, genCount, toast,
                 checkRun, fetchRun, resetRun, counters>>
  /\ UNCHANGED <<roadVars, serverVars>>

\* the Continue to Roadmaps button: onSelectPath(selectedPath)
ContinueToRoadmaps ==
  /\ DashboardShown
  /\ dashboard.selectedPath # NoId
  /\ index' = [index EXCEPT !.selectedPath = dashboard.selectedPath, !.view = "roadmaps"]
  /\ UNCHANGED <<learnVars, onbVars>>
  /\ UNCHANGED <<dbVars, toast, checkRun, dashVars>>
  /\ UNCHANGED <<roadVars, serverVars>>

\* SkillRoadmaps onBack: the Dashboard is mounted anew
RoadmapsBack ==
  /\ index.view = "roadmaps" /\ ~index.isCheckingProfile
  /\ dashboard.mount < MaxMounts
  /\ index' = [index EXCEPT !.view = "dashboard"]
  /\ dashboard' = [DashboardMounted EXCEPT !.mount = dashboard.mount + 1]
  /\ UNCHANGED <<learnVars, onbVars>>
  /\ UNCHANGED <<dbVars, toast, checkRun, fetchRun, selectRun, resetRun, counters>>
  /\ UNCHANGED <<roadVars, serverVars>>

(***************************************************************************)
(* Dashboard.handleReset and the reload that ends it.                      *)
(***************************************************************************)
\* a click on Change Goal (isFullWipe false) or Full Wipe (true), confirmed
ResetClick(isFullWipe) ==
  /\ DashboardShown
  /\ resetRun.pc = "idle"
  /\ counters.resets < MaxResets
  /\ resetRun' = [pc |-> "learning_paths", isFullWipe |-> isFullWipe]
  /\ counters' = [counters EXCEPT !.resets = @ + 1]
  /\ UNCHANGED <<learnVars, onbVars>>
  /\ UNCHANGED <<dbVars, toast, index, checkRun, dashboard, fetchRun, selectRun>>
  /\ UNCHANGED <<roadVars, serverVars>>

\* if (!confirm(msg)) return
ResetDeclined(isFullWipe) ==
  /\ DashboardShown
  /\ resetRun.pc = "idle"
  /\ counters.resets < MaxResets
  /\ counters' = [counters EXCEPT !.resets = @ + 1]
  /\ UNCHANGED <<learnVars, onbVars>>
  /\ UNCHANGED <<dbVars, toast, index, checkRun, dashboard, fetchRun, selectRun, resetRun>>
  /\ UNCHANGED <<roadVars, serverVars>>

\* delete from learning_paths where user_id = user.id; roadmaps and progress cascade
ResetDeletePaths ==
  /\ resetRun.pc = "learning_paths"
  /\ LET cascaded == CascadeRoadmaps(learning_paths, skill_roadmaps)
     IN /\ learning_paths' = {}
        /\ skill_roadmaps' = skill_roadmaps \ cascaded
        /\ topic_progress' = topic_progress \ CascadeProgress(cascaded, topic_progress)
  /\ resetRun' = [resetRun EXCEPT !.pc = "skill_roadmaps"]
  /\ UNCHANGED <<learnVars, onbVars>>
  /\ UNCHANGED <<profiles, user_skills, genCount, toast, index, checkRun, dashboard,
                 fetchRun, selectRun, counters>>
  /\ UNCHANGED <<roadVars, serverVars>>

\* delete from skill_roadmaps where user_id = user.id; progress cascades
ResetDeleteRoadmaps ==
  /\ resetRun.pc = "skill_roadmaps"
  /\ skill_roadmaps' = {}
  /\ topic_progress' = topic_progress \ CascadeProgress(skill_roadmaps, topic_progress)
  /\ resetRun' = [resetRun EXCEPT !.pc = "topic_progress"]
  /\ UNCHANGED <<learnVars, onbVars>>
  /\ UNCHANGED <<profiles, user_skills, learning_paths, genCount, toast, index, checkRun,
                 dashboard, fetchRun, selectRun, counters>>
  /\ UNCHANGED <<roadVars, serverVars>>

\* delete from topic_progress: the table has no DELETE policy, no row is removed
ResetDeleteProgress ==
  /\ resetRun.pc = "topic_progress"
  /\ resetRun' = [resetRun EXCEPT !.pc = IF resetRun.isFullWipe THEN "user_skills" ELSE "update_profile"]
  /\ UNCHANGED <<learnVars, onbVars>>
  /\ UNCHANGED <<dbVars, toast, index, checkRun, dashboard, fetchRun, selectRun, counters>>
  /\ UNCHANGED <<roadVars, serverVars>>

\* delete from user_skills where user_id = user.id
ResetDeleteSkills ==
  /\ resetRun.pc = "user_skills"
  /\ user_skills' = {}
  /\ resetRun' = [resetRun EXCEPT !.pc = "delete_profile"]
  /\ UNCHANGED <<learnVars, onbVars>>
  /\ UNCHANGED <<profiles, learning_paths, skill_roadmaps, topic_progress, genCount, toast,
                 index, checkRun, dashboard, fetchRun, selectRun, counters>>
  /\ UNCHANGED <<roadVars, serverVars>>

\* delete from profiles: the table has no DELETE policy, the row stays
ResetDeleteProfile ==
  /\ resetRun.pc = "delete_profile"
  /\ resetRun' = [resetRun EXCEPT !.pc = "reload"]
  /\ UNCHANGED <<learnVars, onbVars>>
  /\ UNCHANGED <<dbVars, toast, index, checkRun, dashboard, fetchRun, selectRun, counters>>
  /\ UNCHANGED <<roadVars, serverVars>>

\* handleReset(false) without the update of the profile
ResetUpdateProfileSkipped ==
  /\ resetRun.pc = "update_profile"
  /\ resetRun' = [resetRun EXCEPT !.pc = "reload"]
  /\ UNCHANGED <<learnVars, onbVars>>
  /\ UNCHANGED <<dbVars, toast, index, checkRun, dashboard, fetchRun, selectRun, counters>>
  /\ UNCHANGED <<roadVars, serverVars>>

\* update profiles set onboarding_completed = false where user_id = user.id
ResetUpdateProfile ==
  /\ resetRun.pc = "update_profile"
  /\ profiles' = IF profiles.exists THEN [profiles EXCEPT !.onboarding_completed = FALSE] ELSE profiles
  /\ resetRun' = [resetRun EXCEPT !.pc = "reload"]
  /\ UNCHANGED <<learnVars, onbVars>>
  /\ UNCHANGED <<user_skills, learning_paths, skill_roadmaps, topic_progress, genCount, toast,
                 index, checkRun, dashboard, fetchRun, selectRun, counters>>
  /\ UNCHANGED <<roadVars, serverVars>>

(***************************************************************************)
(* The reset-data request handler: it deletes with the service role, which *)
(* no row-level policy restricts.                                          *)
(***************************************************************************)
\* const tables, in the order of the loop
ResetTables == <<"topic_progress", "skill_roadmaps", "learning_paths", "user_skills", "profiles">>

\* the tables emptied by a delete of all rows of a table: the table and the
\* tables whose foreign keys cascade from it
EmptiedWith(table) ==
  CASE table = "learning_paths" -> {"learning_paths", "skill_roadmaps", "topic_progress"}
    [] table = "skill_roadmaps" -> {"skill_roadmaps", "topic_progress"}
    [] OTHER -> {table}

\* a request reaches the handler; createClient with SUPABASE_SERVICE_ROLE_KEY
ResetDataRequest ==
  /\ resetDataRun.pc = "idle"
  /\ resetDataRun' = [pc |-> "topic_progress"]
  /\ UNCHANGED <<dbVars, toast, index, checkRun, dashVars, learnVars, onbVars, roadVars, otherUser, auth>>

\* one round of the loop: delete from table where user_id <> the zero uuid,
\* that is every row of every user
ResetDataDelete ==
  /\ resetDataRun.pc \in Range(ResetTables)
  /\ LET i == CHOOSE k \in DOMAIN ResetTables : ResetTables[k] = resetDataRun.pc
         emptied == EmptiedWith(resetDataRun.pc)
     IN /\ profiles' = IF "profiles" \in emptied THEN [profiles EXCEPT !.exists = FALSE] ELSE profiles
        /\ user_skills' = IF "user_skills" \in emptied THEN {} ELSE user_skills
        /\ learning_paths' = IF "learning_paths" \in emptied THEN {} ELSE learning_paths
        /\ skill_roadmaps' = IF "skill_roadmaps" \in emptied THEN {} ELSE skill_roadmaps
        /\ topic_progress' = IF "topic_progress" \in emptied THEN {} ELSE topic_progress
        /\ otherUser' = otherUser \ emptied
        /\ resetDataRun' = [pc |-> IF i < Len(ResetTables) THEN ResetTables[i + 1] ELSE "done"]
  /\ UNCHANGED <<genCount, toast, index, checkRun, dashVars, learnVars, onbVars, roadVars, auth>>

(***************************************************************************)
(* Index.checkUserProfile.                                                 *)
(***************************************************************************)
\* the session ends: the Sign Out button, a sign-out in another tab, an expired
\* session; useAuthContext then gives user = null
SignOut ==
  /\ auth.user
  /\ auth' = [user |-> FALSE, loading |-> FALSE, effectRun |-> FALSE]
  /\ UNCHANGED <<dbVars, toast, index, checkRun, dashVars, learnVars, onbVars, roadVars,
                 otherUser, resetDataRun>>

\* useEffect [user, loading]: checkUserProfile up to its first await for a user,
\* setView("landing") without one
AuthEffect ==
  /\ ~auth.effectRun
  /\ auth' = [auth EXCEPT !.effectRun = TRUE]
  /\ IF auth.user /\ ~auth.loading
       THEN /\ index' = [index EXCEPT !.isCheckingProfile = TRUE]
            /\ checkRun' = [pc |-> "profile"]
       ELSE IF ~auth.user /\ ~auth.loading
       THEN /\ index' = [index EXCEPT !.view = "landing"]
            /\ UNCHANGED checkRun
       ELSE UNCHANGED <<index, checkRun>>
  /\ UNCHANGED <<dbVars, toast, dashVars, learnVars, onbVars, roadVars, otherUser, resetDataRun>>

\* select from profiles: an error is thrown and caught, a missing or not onboarded
\* profile shows the onboarding as well
CheckProfile(error) ==
  /\ checkRun.pc = "profile"
  /\ IF error \/ ~profiles.exists \/ ~profiles.onboarding_completed
       THEN /\ index' = [index EXCEPT !.view = "onboarding", !.isCheckingProfile = FALSE]
            /\ checkRun' = [pc |-> "idle"]
       ELSE /\ checkRun' = [pc |-> "paths"]
            /\ UNCHANGED index
  /\ UNCHANGED <<learnVars, onbVars>>
  /\ UNCHANGED <<dbVars, toast, dashVars>>
  /\ UNCHANGED <<roadVars, serverVars>>

\* select from learning_paths where is_selected; its error is not looked at and
\* leaves paths null
CheckPaths(error) ==
  /\ checkRun.pc = "paths"
  /\ LET paths == IF error THEN <<>> ELSE RowsInOrder({ r \in learning_paths : r.is_selected })
     IN IF paths # <<>>
          THEN /\ index' = [index EXCEPT !.selectedPath = paths[1].id, !.view = "roadmaps",
                                         !.isCheckingProfile = FALSE]
               /\ UNCHANGED dashboard
          ELSE /\ index' = [index EXCEPT !.view = "dashboard", !.isCheckingProfile = FALSE]
               /\ dashboard' = [DashboardMounted EXCEPT !.mount = dashboard.mount + 1]
  /\ checkRun' = [pc |-> "idle"]
  /\ UNCHANGED <<learnVars, onbVars>>
  /\ UNCHANGED <<dbVars, toast, fetchRun, selectRun, resetRun, counters>>
  /\ UNCHANGED <<roadVars, serverVars>>

(***************************************************************************)
(* LearningModule: the lesson of one roadmap topic.                        *)
(***************************************************************************)
MaxSections == 1     \* longest section list an LLM reply carries
MaxQuestions == 5    \* longest quiz an LLM reply carries
MaxOpens == 1        \* times a subtopic is opened or navigated to

SectionRuns == {"c1", "c2"}      \* overlapping runs of handleSectionClick
ContentRuns == {"g1", "g2"}      \* overlapping runs of generateContent
RunSlot == [g1 |-> 1, g2 |-> 2]

RoadmapId == <<1, 1>>
TopicId == "topic-1"
Subtopics == <<"st1", "st2">>    \* topic.subtopics, by id
NoSub == "none"
Options == {0, 1}                \* indexes of the options of a question
Unanswered == 0 - 1

\* the section lists the LLM writes for a subtopic: up to MaxSections titles
SectionLists(sub) == { [i \in 1..n |-> <<sub, i>>] : n \in 0..MaxSections }
NoSection == <<NoSub, 0>>
NoContent == [s \in {} |-> <<>>]

\* JSON.stringify({ sections, content }) and JSON.parse of it
Notes(sections, content) == [sections |-> sections, content |-> content]

ProgressKey(t) == <<t.roadmap_id, t.topic_id, t.subtopic_id>>
ProgressRow(sub) == { t \in topic_progress : ProgressKey(t) = <<RoadmapId, TopicId, sub>> }

UpsertProgressUnchecked(table, row) == [error |-> FALSE, rows |-> table \cup {row}]

\* .upsert(row) without onConflict: the conflict target is the primary key id,
\* which the row does not carry, so it is an insert; UNIQUE(user_id, roadmap_id,
\* topic_id, subtopic_id) and the foreign key to skill_roadmaps are enforced
UpsertProgress(table, row) ==
  IF \/ \E t \in table : ProgressKey(t) = ProgressKey(row)
     \/ ~\E r \in skill_roadmaps : r.id = row.roadmap_id
    THEN [error |-> TRUE, rows |-> table]
    ELSE [error |-> FALSE, rows |-> table \cup {row}]

CacheRow(sub, sections, content) ==
  [roadmap_id |-> RoadmapId, topic_id |-> TopicId, subtopic_id |-> sub,
   is_completed |-> FALSE, completion_percentage |-> 0, notes |-> Notes(sections, content)]
CompleteRow(sub, sections, content) ==
  [roadmap_id |-> RoadmapId, topic_id |-> TopicId, subtopic_id |-> sub,
   is_completed |-> TRUE, completion_percentage |-> 100, notes |-> Notes(sections, content)]

CacheNeverHit(notes) == FALSE

\* cached.sections && cached.sections.length > 0
CacheHit(notes) == notes.sections # <<>>

\* { ...content, [section]: text }
WithContent(content, section, text) ==
  [x \in DOMAIN content \cup {section} |-> IF x = section THEN text ELSE content[x]]

LearningMounted ==
  [mount |-> 0, subtopic |-> NoSub, sections |-> <<>>, currentSection |-> NoSection,
   sectionContent |-> NoContent, isSectionLoading |-> FALSE, isLoading |-> TRUE,
   isCompleted |-> FALSE, isMarkingComplete |-> FALSE, showQuiz |-> FALSE,
   quizQuestions |-> <<>>, userAnswers |-> <<>>, isQuizLoading |-> FALSE,
   quizSubmitted |-> FALSE, quizScore |-> 0]
IdleContent == [pc |-> "idle", check |-> "idle", mount |-> 0, subtopic |-> NoSub,
                sections |-> <<>>, content |-> NoContent, outcome |-> "none"]
IdleSection == [pc |-> "idle", mount |-> 0, subtopic |-> NoSub, section |-> NoSection,
                sections |-> <<>>, content |-> NoContent]
IdleQuiz == [pc |-> "idle", mount |-> 0, subtopic |-> NoSub]
IdleMark == [pc |-> "idle", mount |-> 0, subtopic |-> NoSub, sections |-> <<>>,
             content |-> NoContent]

\* window.location.reload(): every run in flight is dropped, Index starts over
ResetReload ==
  /\ resetRun.pc = "reload"
  /\ resetRun' = IdleReset
  /\ fetchRun' = [f \in FetchRuns |-> IdleFetch]
  /\ selectRun' = [s \in SelectRuns |-> IdleSelect]
  /\ index' = [view |-> "landing", selectedPath |-> NoId, isCheckingProfile |-> TRUE]
  /\ checkRun' = [pc |-> "profile"]
  /\ toast' = "none"
  /\ contentRun' = [g \in ContentRuns |-> IdleContent]
  /\ sectionRun' = [c \in SectionRuns |-> IdleSection]
  /\ quizRun' = IdleQuiz
  /\ markRun' = IdleMark
  /\ UNCHANGED <<learning, onbVars>>
  /\ UNCHANGED <<dbVars, dashboard, counters>>
  /\ UNCHANGED <<roadVars, serverVars>>

LearningShown == index.view = "learning" /\ ~index.isCheckingProfile
StillMounted(run) == LearningShown /\ run.mount = learning.mount
SetLearning(run, upd) == IF StillMounted(run) THEN upd ELSE learning

\* useEffect [subtopic.id]: generateContent() and checkCompletion() up to their first await
StartContent(state, sub) ==
  [state EXCEPT !.subtopic = sub, !.isLoading = TRUE, !.sections = <<>>,
                !.currentSection = NoSection, !.sectionContent = NoContent]
\* a run whose two functions have returned leaves its outcome behind
Returned(run) ==
  IF run.pc = "done" /\ run.check = "done" THEN [IdleContent EXCEPT !.outcome = run.outcome]
                                            ELSE run
FreeContentRun(g) ==
  /\ contentRun[g].pc \in {"idle", "done"} /\ contentRun[g].check \in {"idle", "done"}
  /\ \A h \in ContentRuns : RunSlot[h] < RunSlot[g] =>
        ~(contentRun[h].pc \in {"idle", "done"} /\ contentRun[h].check \in {"idle", "done"})

\* Index.handleOpenLearning from the roadmaps: the LearningModule is mounted
OpenLearning(g, i) ==
  /\ index.view = "roadmaps" /\ ~index.isCheckingProfile
  /\ \E r \in skill_roadmaps : r.id = RoadmapId
  /\ i \in DOMAIN Subtopics
  /\ learning.mount < MaxOpens
  /\ FreeContentRun(g)
  /\ index' = [index EXCEPT !.view = "learning"]
  /\ learning' = StartContent([LearningMounted EXCEPT !.mount = learning.mount + 1], Subtopics[i])
  /\ contentRun' = [contentRun EXCEPT ![g] = [IdleContent EXCEPT !.pc = "select", !.check = "select",
                        !.mount = learning.mount + 1, !.subtopic = Subtopics[i]]]
  /\ UNCHANGED <<dbVars, toast, checkRun, dashVars, sectionRun, quizRun, markRun, onbVars>>
  /\ UNCHANGED <<roadVars, serverVars>>

\* Previous / Next: Index.handleNavigateSubtopic, the component stays mounted
Navigate(g, i) ==
  /\ LearningShown
  /\ i \in DOMAIN Subtopics
  /\ \E j \in DOMAIN Subtopics : Subtopics[j] = learning.subtopic /\ (i = j - 1 \/ i = j + 1)
  /\ counters.navs < MaxNavigations
  /\ FreeContentRun(g)
  /\ learning' = StartContent(learning, Subtopics[i])
  /\ contentRun' = [contentRun EXCEPT ![g] = [IdleContent EXCEPT !.pc = "select", !.check = "select",
                        !.mount = learning.mount, !.subtopic = Subtopics[i]]]
  /\ counters' = [counters EXCEPT !.navs = @ + 1]
  /\ UNCHANGED <<dbVars, toast, index, checkRun, dashboard, fetchRun, selectRun, resetRun,
                 sectionRun, quizRun, markRun, onbVars>>
  /\ UNCHANGED <<roadVars, serverVars>>

\* onBack: the view returns to the roadmaps
LearningBack ==
  /\ LearningShown
  /\ index' = [index EXCEPT !.view = "roadmaps"]
  /\ UNCHANGED <<dbVars, toast, checkRun, dashVars, learnVars, onbVars>>
  /\ UNCHANGED <<roadVars, serverVars>>

\* generateContent: select notes from topic_progress for the key
ContentSelect(g) ==
  /\ contentRun[g].pc = "select"
  /\ LET run == contentRun[g]
         row == ProgressRow(run.subtopic)
         cached == (CHOOSE t \in row : TRUE).notes
     IN IF row # {} /\ CacheHit(cached)
          THEN /\ learning' = SetLearning(run,
                     [learning EXCEPT !.sections = cached.sections,
                                      !.sectionContent = cached.content,
                                      !.currentSection = cached.sections[1],
                                      !.isLoading = FALSE])
               /\ contentRun' = [contentRun EXCEPT ![g] = Returned([@ EXCEPT !.pc = "done", !.outcome = "cached"])]
          ELSE /\ contentRun' = [contentRun EXCEPT ![g].pc = "invoke"]
               /\ UNCHANGED learning
  /\ UNCHANGED <<dbVars, toast, index, checkRun, dashVars, sectionRun, quizRun, markRun, onbVars>>
  /\ UNCHANGED <<roadVars, serverVars>>

\* answers of the generate-learning-content handler to a request without section
ContentReplies(sub) ==
  { [error |-> TRUE, hasSections |-> FALSE, sections |-> <<>>, first |-> FALSE],
    [error |-> FALSE, hasSections |-> FALSE, sections |-> <<>>, first |-> FALSE] }
  \cup { [error |-> FALSE, hasSections |-> TRUE, sections |-> ss, first |-> fc]
           : ss \in SectionLists(sub), fc \in BOOLEAN }

\* generateContent: the answer of the handler arrives
ContentInvoke(g, reply) ==
  /\ contentRun[g].pc = "invoke"
  /\ reply \in ContentReplies(contentRun[g].subtopic)
  /\ LET run == contentRun[g]
         newSections == reply.sections
         firstKey == IF newSections # <<>> THEN newSections[1] ELSE NoSection
         newContent == IF reply.first THEN WithContent(NoContent, firstKey, <<run.subtopic, firstKey>>)
                                      ELSE NoContent
     IN IF reply.error
          THEN /\ toast' = "Content Generation Failed"
               /\ learning' = SetLearning(run, [learning EXCEPT !.isLoading = FALSE])
               /\ contentRun' = [contentRun EXCEPT ![g] = Returned([@ EXCEPT !.pc = "done", !.outcome = "failed"])]
          ELSE IF ~reply.hasSections
          THEN /\ learning' = SetLearning(run, [learning EXCEPT !.isLoading = FALSE])
               /\ contentRun' = [contentRun EXCEPT ![g] = Returned([@ EXCEPT !.pc = "done", !.outcome = "empty"])]
               /\ UNCHANGED toast
          ELSE /\ learning' = SetLearning(run,
                     [learning EXCEPT !.sections = newSections, !.sectionContent = newContent,
                                      !.currentSection = IF newSections # <<>> THEN newSections[1] ELSE @])
               /\ contentRun' = [contentRun EXCEPT ![g].pc = "save", ![g].sections = newSections,
                                                   ![g].content = newContent]
               /\ UNCHANGED toast
  /\ UNCHANGED <<dbVars, index, checkRun, dashVars, sectionRun, quizRun, markRun, onbVars>>
  /\ UNCHANGED <<roadVars, serverVars>>

\* generateContent: the upsert that caches the generated sections; its error is not looked at
ContentSave(g) ==
  /\ contentRun[g].pc = "save"
  /\ LET run == contentRun[g]
     IN /\ topic_progress' = UpsertProgress(topic_progress,
                                 CacheRow(run.subtopic, run.sections, run.content)).rows
        /\ learning' = SetLearning(run, [learning EXCEPT !.isLoading = FALSE])
        /\ contentRun' = [contentRun EXCEPT ![g] =
                             Returned([@ EXCEPT !.pc = "done", !.outcome = "generated",
                                                !.sections = <<>>, !.content = NoContent])]
  /\ UNCHANGED <<profiles, user_skills, learning_paths, skill_roadmaps, genCount, toast, index,
                 checkRun, dashVars, sectionRun, quizRun, markRun, onbVars>>
  /\ UNCHANGED <<roadVars, serverVars>>

\* checkCompletion: select the row of the key, then setIsCompleted
CheckCompletion(g) ==
  /\ contentRun[g].check = "select"
  /\ LET run == contentRun[g]
         row == ProgressRow(run.subtopic)
     IN learning' = SetLearning(run,
            [learning EXCEPT !.isCompleted = row # {} /\ (CHOOSE t \in row : TRUE).is_completed])
  /\ contentRun' = [contentRun EXCEPT ![g] = Returned([@ EXCEPT !.check = "done"])]
  /\ UNCHANGED <<dbVars, toast, index, checkRun, dashVars, sectionRun, quizRun, markRun, onbVars>>
  /\ UNCHANGED <<roadVars, serverVars>>

(***************************************************************************)
(* LearningModule.handleSectionClick.                                      *)
(***************************************************************************)
SectionsShown == LearningShown /\ ~learning.isLoading /\ ~learning.showQuiz

\* a click on a section whose content is already there
SectionShow(i) ==
  /\ SectionsShown
  /\ i \in DOMAIN learning.sections
  /\ learning.sections[i] \in DOMAIN learning.sectionContent
  /\ learning' = [learning EXCEPT !.currentSection = learning.sections[i]]
  /\ UNCHANGED <<dbVars, toast, index, checkRun, dashVars, contentRun, sectionRun, quizRun,
                 markRun, onbVars>>
  /\ UNCHANGED <<roadVars, serverVars>>

\* a click on a section without content: the handler is asked for it
SectionClick(c, i) ==
  /\ SectionsShown
  /\ i \in DOMAIN learning.sections
  /\ learning.sections[i] \notin DOMAIN learning.sectionContent
  /\ sectionRun[c].pc = "idle"
  /\ \A d \in SectionRuns : Slot[d] < Slot[c] => sectionRun[d].pc # "idle"
  /\ learning' = [learning EXCEPT !.currentSection = learning.sections[i], !.isSectionLoading = TRUE]
  /\ sectionRun' = [sectionRun EXCEPT ![c] =
                     [pc |-> "invoke", mount |-> learning.mount, subtopic |-> learning.subtopic,
                      section |-> learning.sections[i], sections |-> learning.sections,
                      content |-> learning.sectionContent]]
  /\ UNCHANGED <<dbVars, toast, index, checkRun, dashVars, contentRun, quizRun, markRun, onbVars>>
  /\ UNCHANGED <<roadVars, serverVars>>

\* the answer of the handler for the section arrives
SectionInvoke(c, failed) ==
  /\ sectionRun[c].pc = "invoke"
  /\ LET run == sectionRun[c]
         updatedContent == WithContent(run.content, run.section, <<run.subtopic, run.section>>)
     IN IF failed
          THEN /\ learning' = SetLearning(run, [learning EXCEPT !.isSectionLoading = FALSE])
               /\ sectionRun' = [sectionRun EXCEPT ![c] = IdleSection]
          ELSE /\ learning' = SetLearning(run, [learning EXCEPT !.sectionContent = updatedContent])
               /\ sectionRun' = [sectionRun EXCEPT ![c].pc = "save", ![c].content = updatedContent]
  /\ UNCHANGED <<dbVars, toast, index, checkRun, dashVars, contentRun, quizRun, markRun, onbVars>>
  /\ UNCHANGED <<roadVars, serverVars>>

\* the upsert that caches the section; its error is not looked at
SectionSave(c) ==
  /\ sectionRun[c].pc = "save"
  /\ LET run == sectionRun[c]
     IN /\ topic_progress' = UpsertProgress(topic_progress,
                                 CacheRow(run.subtopic, run.sections, run.content)).rows
        /\ learning' = SetLearning(run, [learning EXCEPT !.isSectionLoading = FALSE])
  /\ sectionRun' = [sectionRun EXCEPT ![c] = IdleSection]
  /\ UNCHANGED <<profiles, user_skills, learning_paths, skill_roadmaps, genCount, toast, index,
                 checkRun, dashVars, contentRun, quizRun, markRun, onbVars>>
  /\ UNCHANGED <<roadVars, serverVars>>

(***************************************************************************)
(* Math.ceil(quizQuestions.length * 0.6) in IEEE 754 double precision.     *)
(* Numbers are bit sequences, least significant bit first.                 *)
(***************************************************************************)
MantissaBits == 53
\* the double nearest to 0.6 is 0x13333333333333 * 2^-53
Mantissa06 ==
  [i \in 1..MantissaBits |-> IF i = MantissaBits THEN 1 ELSE IF i % 4 \in {1, 2} THEN 1 ELSE 0]

RECURSIVE BitsOf(_)
BitsOf(n) == IF n = 0 THEN <<>> ELSE <<n % 2>> \o BitsOf(n \div 2)

RECURSIVE MulBits(_, _, _)
MulBits(bits, n, carry) ==
  IF bits = <<>> THEN BitsOf(carry)
  ELSE LET v == Head(bits) * n + carry
       IN <<v % 2>> \o MulBits(Tail(bits), n, v \div 2)

RECURSIVE IncBits(_)
IncBits(bits) ==
  IF bits = <<>> THEN <<1>>
  ELSE IF Head(bits) = 0 THEN <<1>> \o Tail(bits)
  ELSE <<0>> \o IncBits(Tail(bits))

RECURSIVE ValueOf(_)
ValueOf(bits) == IF bits = <<>> THEN 0 ELSE Head(bits) + 2 * ValueOf(Tail(bits))

\* round to nearest, ties to even, keeping 53 significant bits
RoundToDouble(bits) ==
  IF Len(bits) <= MantissaBits THEN bits
  ELSE LET shift == Len(bits) - MantissaBits
           low == SubSeq(bits, 1, shift)
           high == SubSeq(bits, shift + 1, Len(bits))
           halfOrMore == low[shift] = 1
           moreThanHalf == halfOrMore /\ \E i \in 1..(shift - 1) : low[i] = 1
           up == moreThanHalf \/ (halfOrMore /\ high[1] = 1)
       IN [i \in 1..shift |-> 0] \o (IF up THEN IncBits(high) ELSE high)

\* bits is a number of 2^-53 units
CeilOfUnits(bits) ==
  LET whole == IF Len(bits) > MantissaBits THEN ValueOf(SubSeq(bits, MantissaBits + 1, Len(bits))) ELSE 0
      fraction == \E i \in 1..MantissaBits : i <= Len(bits) /\ bits[i] = 1
  IN IF fraction THEN whole + 1 ELSE whole

\* const passScore = Math.ceil(quizQuestions.length * 0.6)
PassScoreRoundedDown(n) == (6 * n) \div 10

PassScore(n) == CeilOfUnits(RoundToDouble(MulBits(Mantissa06, n, 0)))

(***************************************************************************)
(* LearningModule: the quiz and markAsComplete.                            *)
(***************************************************************************)
QuizShown == LearningShown /\ ~learning.isLoading /\ learning.showQuiz /\ ~learning.isQuizLoading

\* userAnswers.forEach: the number of answers equal to the question's correctAnswer
RECURSIVE Score(_, _)
Score(answers, questions) ==
  IF answers = <<>> \/ questions = <<>> THEN 0
  ELSE (IF Head(answers) = Head(questions).correctAnswer THEN 1 ELSE 0)
         + Score(Tail(answers), Tail(questions))

\* userAnswers.includes(-1)
Incomplete(answers) == \E i \in DOMAIN answers : answers[i] = Unanswered

QuizPassedWithAnyScore(score, n) == score >= 0

\* score >= passScore
QuizPassed(score, n) == score >= PassScore(n)

\* Mark as Mastered, or Try Again after a failed quiz: startQuiz up to its await
StartQuiz ==
  /\ LearningShown
  /\ \/ ~learning.isCompleted /\ ~learning.isMarkingComplete /\ ~learning.showQuiz
     \/ /\ QuizShown /\ learning.quizSubmitted /\ learning.quizQuestions # <<>>
        /\ learning.quizScore < PassScore(Len(learning.quizQuestions))
  /\ quizRun.pc = "idle"
  /\ learning' = [learning EXCEPT !.isQuizLoading = TRUE, !.showQuiz = TRUE, !.quizSubmitted = FALSE]
  /\ quizRun' = [pc |-> "invoke", mount |-> learning.mount, subtopic |-> learning.subtopic]
  /\ UNCHANGED <<dbVars, toast, index, checkRun, dashVars, contentRun, sectionRun, markRun, onbVars>>
  /\ UNCHANGED <<roadVars, serverVars>>

\* what startQuiz gets back: a failure, no data, or data with a list of questions
QuizReplies(maxLen) ==
  { [error |-> TRUE, data |-> FALSE, questions |-> <<>>],
    [error |-> FALSE, data |-> FALSE, questions |-> <<>>],
    [error |-> FALSE, data |-> TRUE, questions |-> <<>>] }
  \cup { [error |-> FALSE, data |-> TRUE,
            questions |-> [i \in 1..n |-> [correctAnswer |-> i % 2]]] : n \in 1..maxLen }

\* the questions of a reply, each with the subtopic whose title the request carried
QuestionsFor(sub, questions) ==
  [i \in DOMAIN questions |-> [correctAnswer |-> questions[i].correctAnswer, subtopic |-> sub]]

\* startQuiz: the answer arrives
QuizInvoke(reply) ==
  /\ quizRun.pc = "invoke"
  /\ IF reply.error \/ (reply.data /\ reply.questions = <<>>)
       THEN /\ toast' = "Quiz Generation Failed"
            /\ learning' = SetLearning(quizRun, [learning EXCEPT !.showQuiz = FALSE, !.isQuizLoading = FALSE])
       ELSE IF ~reply.data
       THEN /\ learning' = SetLearning(quizRun, [learning EXCEPT !.isQuizLoading = FALSE])
            /\ UNCHANGED toast
       ELSE /\ learning' = SetLearning(quizRun,
                  [learning EXCEPT !.quizQuestions = QuestionsFor(quizRun.subtopic, reply.questions),
                                   !.userAnswers = [i \in DOMAIN reply.questions |-> Unanswered],
                                   !.isQuizLoading = FALSE])
            /\ UNCHANGED toast
  /\ quizRun' = IdleQuiz
  /\ UNCHANGED <<dbVars, index, checkRun, dashVars, contentRun, sectionRun, markRun, onbVars>>
  /\ UNCHANGED <<roadVars, serverVars>>

\* Cancel, Back to Lesson, Review Content: setShowQuiz(false)
CloseQuiz ==
  /\ LearningShown /\ ~learning.isLoading /\ learning.showQuiz
  /\ learning' = [learning EXCEPT !.showQuiz = FALSE]
  /\ UNCHANGED <<dbVars, toast, index, checkRun, dashVars, contentRun, sectionRun, quizRun,
                 markRun, onbVars>>
  /\ UNCHANGED <<roadVars, serverVars>>

\* handleAnswerSelect
AnswerSelect(questionIndex, answerIndex) ==
  /\ QuizShown
  /\ questionIndex \in DOMAIN learning.quizQuestions
  /\ questionIndex \in DOMAIN learning.userAnswers
  /\ ~learning.quizSubmitted
  /\ learning.userAnswers[questionIndex] # answerIndex
  /\ learning' = [learning EXCEPT !.userAnswers[questionIndex] = answerIndex]
  /\ UNCHANGED <<dbVars, toast, index, checkRun, dashVars, contentRun, sectionRun, quizRun,
                 markRun, onbVars>>
  /\ UNCHANGED <<roadVars, serverVars>>

\* submitQuiz, and markAsComplete up to its await when the quiz is passed
SubmitQuiz ==
  /\ QuizShown
  /\ learning.quizQuestions # <<>> /\ ~learning.quizSubmitted
  /\ markRun.pc = "idle"
  /\ LET score == Score(learning.userAnswers, learning.quizQuestions)
     IN IF Incomplete(learning.userAnswers)
          THEN /\ toast' = "Incomplete Quiz"
               /\ UNCHANGED <<learning, markRun>>
          ELSE IF QuizPassed(score, Len(learning.quizQuestions))
          THEN /\ learning' = [learning EXCEPT !.quizScore = score, !.quizSubmitted = TRUE,
                                               !.isMarkingComplete = TRUE]
               /\ markRun' = [pc |-> "upsert", mount |-> learning.mount,
                              subtopic |-> learning.subtopic, sections |-> learning.sections,
                              content |-> learning.sectionContent]
               /\ UNCHANGED toast
          ELSE /\ learning' = [learning EXCEPT !.quizScore = score, !.quizSubmitted = TRUE]
               /\ toast' = "Quiz Not Passed"
               /\ UNCHANGED markRun
  /\ UNCHANGED <<dbVars, index, checkRun, dashVars, contentRun, sectionRun, quizRun, onbVars>>
  /\ UNCHANGED <<roadVars, serverVars>>

\* markAsComplete: the upsert, then setIsCompleted(true) unless it returned an error
MarkUpsert ==
  /\ markRun.pc = "upsert"
  /\ LET run == markRun
         result == UpsertProgress(topic_progress, CompleteRow(run.subtopic, run.sections, run.content))
     IN /\ topic_progress' = result.rows
        /\ IF result.error
             THEN /\ toast' = "Error"
                  /\ learning' = SetLearning(run, [learning EXCEPT !.isMarkingComplete = FALSE])
             ELSE /\ toast' = "Module mastered!"
                  /\ learning' = SetLearning(run, [learning EXCEPT !.isCompleted = TRUE,
                                                                   !.isMarkingComplete = FALSE])
  /\ markRun' = IdleMark
  /\ UNCHANGED <<profiles, user_skills, learning_paths, skill_roadmaps, genCount, index,
                 checkRun, dashVars, contentRun, sectionRun, quizRun, onbVars>>
  /\ UNCHANGED <<roadVars, serverVars>>

(***************************************************************************)
(* The generate-learning-content request handler and what the client's     *)
(* functions.invoke makes of its answer.                                   *)
(***************************************************************************)
\* the text of the LLM's first choice: prose, a JSON object with a "sections"
\* array and with or without "firstSectionContent", a JSON object with a
\* "questions" array, or a JSON object with neither
LessonTexts(sub) ==
  { [kind |-> "prose", sections |-> <<>>, first |-> FALSE, questions |-> <<>>],
    [kind |-> "object", sections |-> <<>>, first |-> FALSE, questions |-> <<>>],
    [kind |-> "questions", sections |-> <<>>, first |-> FALSE,
       questions |-> [i \in 1..MaxQuestions |-> [correctAnswer |-> i % 2]]] }
  \cup { [kind |-> "sections", sections |-> ss, first |-> fc, questions |-> <<>>]
           : ss \in SectionLists(sub), fc \in BOOLEAN }

\* what the call to the LLM comes back with: a body with choices[0].message or without
LessonUpstream(sub) ==
  { [choices |-> FALSE, text |-> [kind |-> "prose", sections |-> <<>>, first |-> FALSE,
                                  questions |-> <<>>]] }
  \cup { [choices |-> TRUE, text |-> t] : t \in LessonTexts(sub) }

\* the handler: status 500 when the key is missing or the LLM's body has no
\* choices; without a section the LLM's text is the body; with a section,
\* whatever it is called, the body is {content: text}
LearningContentHandler(keyConfigured, hasSection, up) ==
  IF ~keyConfigured \/ ~up.choices
    THEN [status |-> 500, json |-> TRUE, hasSections |-> FALSE, sections |-> <<>>,
          first |-> FALSE, hasContent |-> FALSE, hasQuestions |-> FALSE, questions |-> <<>>]
  ELSE IF ~hasSection
    THEN [status |-> 200, json |-> up.text.kind # "prose",
          hasSections |-> up.text.kind = "sections", sections |-> up.text.sections,
          first |-> up.text.first, hasContent |-> FALSE,
          hasQuestions |-> up.text.kind = "questions", questions |-> up.text.questions]
  ELSE [status |-> 200, json |-> TRUE, hasSections |-> FALSE, sections |-> <<>>,
        first |-> FALSE, hasContent |-> TRUE, hasQuestions |-> FALSE, questions |-> <<>>]

\* functions.invoke: an error for a status outside 2xx or a body that is not JSON
InvokeFailed(answer) == answer.status # 200 \/ ~answer.json

\* generateContent sends no section
ContentRequest(g, keyConfigured, up) ==
  LET answer == LearningContentHandler(keyConfigured, FALSE, up)
  IN ContentInvoke(g, [error |-> InvokeFailed(answer),
                       hasSections |-> ~InvokeFailed(answer) /\ answer.hasSections,
                       sections |-> IF InvokeFailed(answer) THEN <<>> ELSE answer.sections,
                       first |-> ~InvokeFailed(answer) /\ answer.first])

\* handleSectionClick sends the title of the section
SectionRequest(c, keyConfigured, up) ==
  SectionInvoke(c, InvokeFailed(LearningContentHandler(keyConfigured, TRUE, up)))

\* startQuiz sends section: "quiz"
QuizRequest(keyConfigured, up) ==
  LET answer == LearningContentHandler(keyConfigured, TRUE, up)
  IN QuizInvoke([error |-> InvokeFailed(answer), data |-> ~InvokeFailed(answer),
                 questions |-> IF ~InvokeFailed(answer) /\ answer.hasQuestions
                                 THEN answer.questions ELSE <<>>])

(***************************************************************************)
(* The generate-roadmap request handler.                                   *)
(***************************************************************************)
\* what the call to the LLM comes back with: the HTTP status is 2xx or not,
\* the first choice has content or not, the content parses as JSON or not,
\* and the parsed object has a "topics" array or not
RoadmapUpstream ==
  { [ok |-> FALSE, text |-> FALSE, json |-> FALSE, topics |-> FALSE],
    [ok |-> TRUE, text |-> FALSE, json |-> FALSE, topics |-> FALSE],
    [ok |-> TRUE, text |-> TRUE, json |-> FALSE, topics |-> FALSE],
    [ok |-> TRUE, text |-> TRUE, json |-> TRUE, topics |-> FALSE],
    [ok |-> TRUE, text |-> TRUE, json |-> TRUE, topics |-> TRUE] }

\* the handler: every failure is caught and answered with status 200 and
\* {error, details, isError: true}; otherwise the LLM's text is the body
GenerateRoadmapHandler(keyConfigured, up) ==
  IF ~keyConfigured \/ ~up.ok \/ ~up.text
    THEN [status |-> 200, json |-> TRUE, data |-> "isError"]
    ELSE [status |-> 200, json |-> up.json,
          data |-> IF up.json /\ up.topics THEN "topics" ELSE "other"]

(***************************************************************************)
(* SkillRoadmaps: fetchExistingRoadmaps, the skill headers, generateRoadmap.*)
(***************************************************************************)
SkillNames == {"skill-1", "skill-2"}   \* selectedPath.skills
NoSkill == "none"
RoadmapRuns == {"r1", "r2"}            \* overlapping runs of generateRoadmap
NoRoadmaps == [s \in {} |-> [id |-> NoId, data |-> "none"]]

NoProgress == [s \in {} |-> 0]
RoadmapsMounted ==
  [mount |-> 0, roadmaps |-> NoRoadmaps, loadingSkill |-> NoSkill, expandedSkill |-> NoSkill,
   progress |-> NoProgress]
IdleExisting == [pc |-> "idle", mount |-> 0]
IdleRoadmap == [pc |-> "idle", mount |-> 0, skill |-> NoSkill, path |-> NoId, data |-> "none",
                outcome |-> "none"]

RoadmapsShown == index.view = "roadmaps" /\ ~index.isCheckingProfile
SetRoadmaps(run, upd) ==
  IF RoadmapsShown /\ run.mount = skillRoadmaps.mount THEN upd ELSE skillRoadmaps

\* gen_random_uuid(): an id that no stored row has, later ids being larger
NewRoadmapId(rows) ==
  <<2, CHOOSE n \in 1..(Cardinality(rows) + 1) :
         /\ \A r \in rows : r.id # <<2, n>>
         /\ \A m \in 1..(n - 1) : \E r \in rows : r.id = <<2, m>>>>

\* the row that data.forEach sets last for a skill: the one inserted last
LastRow(rows) == CHOOSE r \in rows : \A q \in rows : q.id[1] < r.id[1] \/
                                             (q.id[1] = r.id[1] /\ q.id[2] <= r.id[2])

\* Math.round of the quotient of two naturals
MathRound(num, den) == (2 * num + den) \div (2 * den)

\* Math.round((value.completed / value.total) * 100): total counts the rows
PercentOfRows(completed, total) == MathRound(100 * Cardinality(completed), Cardinality(total))

\* select *, skill_roadmaps!inner(skill_name) from topic_progress, and the
\* progressMap built from the rows
ProgressMap ==
  LET joined(skillName) == { t \in topic_progress :
                               \E r \in skill_roadmaps : r.id = t.roadmap_id /\ r.skill_name = skillName }
      names == { r.skill_name : r \in { q \in skill_roadmaps :
                                          \E t \in topic_progress : t.roadmap_id = q.id } }
  IN [skillName \in names |->
        PercentOfRows({ t \in joined(skillName) : t.is_completed }, joined(skillName))]

\* fetchProgress of the mount effect: the select and setProgress
FetchProgress ==
  /\ RoadmapsShown
  /\ skillRoadmaps.progress # ProgressMap
  /\ skillRoadmaps' = [skillRoadmaps EXCEPT !.progress = ProgressMap]
  /\ UNCHANGED <<dbVars, toast, index, checkRun, dashVars, learnVars, onbVars, existingRun,
                 roadmapRun, serverVars>>

\* fetchExistingRoadmaps: the rows of the path replace the roadmaps map
ExistingSelect ==
  /\ existingRun.pc = "select"
  /\ LET data == { r \in skill_roadmaps : r.learning_path_id = index.selectedPath }
         names == { r.skill_name : r \in data }
         roadmapMap == [s \in names |->
                          LET r == LastRow({ q \in data : q.skill_name = s })
                          IN [id |-> r.id, data |-> r.roadmap_data]]
     IN skillRoadmaps' = SetRoadmaps(existingRun, [skillRoadmaps EXCEPT !.roadmaps = roadmapMap])
  /\ existingRun' = [existingRun EXCEPT !.pc = "done"]
  /\ UNCHANGED <<dbVars, toast, index, checkRun, dashVars, learnVars, onbVars, roadmapRun,
                 serverVars>>

\* a click on the header of a skill that has a roadmap in the map
SkillExpand(skillName) ==
  /\ RoadmapsShown
  /\ skillName \in DOMAIN skillRoadmaps.roadmaps
  /\ skillRoadmaps' = [skillRoadmaps EXCEPT
                         !.expandedSkill = IF @ = skillName THEN NoSkill ELSE skillName]
  /\ UNCHANGED <<dbVars, toast, index, checkRun, dashVars, learnVars, onbVars, existingRun,
                 roadmapRun, serverVars>>

\* a click on the header of a skill without a roadmap in the map:
\* generateRoadmap up to its first await
SkillClick(r, skillName) ==
  /\ RoadmapsShown
  /\ skillName \in SkillNames \ DOMAIN skillRoadmaps.roadmaps
  /\ roadmapRun[r].pc = "idle"
  /\ \A q \in RoadmapRuns : Slot[q] < Slot[r] => roadmapRun[q].pc # "idle"
  /\ skillRoadmaps' = [skillRoadmaps EXCEPT !.loadingSkill = skillName]
  /\ roadmapRun' = [roadmapRun EXCEPT ![r] =
                      [IdleRoadmap EXCEPT !.pc = "invoke", !.mount = skillRoadmaps.mount,
                                          !.skill = skillName, !.path = index.selectedPath]]
  /\ UNCHANGED <<dbVars, toast, index, checkRun, dashVars, learnVars, onbVars, existingRun,
                 serverVars>>

\* generateRoadmap without its finally block
RoadmapFailedKeepsLoading(r) ==
  /\ toast' = "Error generating roadmap"
  /\ UNCHANGED skillRoadmaps
  /\ roadmapRun' = [roadmapRun EXCEPT ![r].pc = "done", ![r].outcome = "failed"]

\* generateRoadmap: the toast and the state of its catch and finally blocks
RoadmapFailed(r) ==
  /\ toast' = "Error generating roadmap"
  /\ skillRoadmaps' = SetRoadmaps(roadmapRun[r], [skillRoadmaps EXCEPT !.loadingSkill = NoSkill])
  /\ roadmapRun' = [roadmapRun EXCEPT ![r].pc = "done", ![r].outcome = "failed"]

\* generateRoadmap: the answer of the handler arrives; response.data is what is saved
RoadmapInvoke(r, keyConfigured, up) ==
  /\ roadmapRun[r].pc = "invoke"
  /\ LET answer == GenerateRoadmapHandler(keyConfigured, up)
     IN IF InvokeFailed(answer)
          THEN RoadmapFailed(r)
          ELSE /\ roadmapRun' = [roadmapRun EXCEPT ![r].pc = "insert", ![r].data = answer.data]
               /\ UNCHANGED <<toast, skillRoadmaps>>
  /\ UNCHANGED <<dbVars, index, checkRun, dashVars, learnVars, onbVars, existingRun, serverVars>>

\* generateRoadmap: insert into skill_roadmaps, then the map, the toast and finally
RoadmapInsert(r) ==
  /\ roadmapRun[r].pc = "insert"
  /\ LET run == roadmapRun[r]
         id == NewRoadmapId(skill_roadmaps)
     IN IF ~\E p \in learning_paths : p.id = run.path
          THEN RoadmapFailed(r) /\ UNCHANGED skill_roadmaps
          ELSE /\ skill_roadmaps' = skill_roadmaps \cup
                     {[id |-> id, learning_path_id |-> run.path, skill_name |-> run.skill,
                       roadmap_data |-> run.data]}
               /\ skillRoadmaps' = SetRoadmaps(run,
                     [skillRoadmaps EXCEPT
                        !.roadmaps = [s \in DOMAIN @ \cup {run.skill} |->
                                        IF s = run.skill THEN [id |-> id, data |-> run.data]
                                                         ELSE @[s]],
                        !.expandedSkill = run.skill, !.loadingSkill = NoSkill])
               /\ toast' = "Roadmap generated!"
               /\ roadmapRun' = [roadmapRun EXCEPT ![r].pc = "done", ![r].outcome = "generated"]
  /\ UNCHANGED <<profiles, user_skills, learning_paths, topic_progress, genCount, index,
                 checkRun, dashVars, learnVars, onbVars, existingRun, serverVars>>

(***************************************************************************)
(* The parse-resume request handler.                                       *)
(***************************************************************************)
FallbackSkills ==
  <<"JavaScript", "Communication", "Problem Solving", "Teamwork", "Project Management">>

\* the "skills" arrays an LLM reply carries
ResumeSkillLists == { <<>>, <<"Python", "JavaScript">> }

\* what the call to the LLM comes back with: the HTTP status is 2xx or not,
\* the first choice has content or not, the content parses as JSON or not,
\* and the parsed object has a "skills" key or not
ResumeUpstream ==
  { [ok |-> FALSE, text |-> FALSE, json |-> FALSE, hasSkills |-> FALSE, skills |-> <<>>],
    [ok |-> TRUE, text |-> FALSE, json |-> FALSE, hasSkills |-> FALSE, skills |-> <<>>],
    [ok |-> TRUE, text |-> TRUE, json |-> FALSE, hasSkills |-> FALSE, skills |-> <<>>],
    [ok |-> TRUE, text |-> TRUE, json |-> TRUE, hasSkills |-> FALSE, skills |-> <<>>] }
  \cup { [ok |-> TRUE, text |-> TRUE, json |-> TRUE, hasSkills |-> TRUE, skills |-> l]
           : l \in ResumeSkillLists }

ParseResumeHandlerWithoutFallback(keyConfigured, up) ==
  IF ~keyConfigured \/ ~up.ok \/ ~up.text \/ ~up.json
    THEN [status |-> 500, hasSkills |-> FALSE, skills |-> <<>>]
    ELSE [status |-> 200, hasSkills |-> up.hasSkills, skills |-> up.skills]

\* the response to a request whose body is the JSON the client sends; every
\* throw inside the inner try block ends in the inner catch
ParseResumeHandler(keyConfigured, up) ==
  IF ~keyConfigured \/ ~up.ok \/ ~up.text \/ ~up.json
    THEN [status |-> 200, hasSkills |-> TRUE, skills |-> FallbackSkills]
    ELSE [status |-> 200, hasSkills |-> up.hasSkills, skills |-> up.skills]

(***************************************************************************)
(* Onboarding: name, skills, dream job, resume.                            *)
(***************************************************************************)
\* texts typed into an input: empty, blank, and blank followed by a letter
Texts == { <<>>, <<" ">>, <<" ", "a">> }
JobTitle == <<"a">>
SelectableSkills == {"JavaScript", "Python"}
\* "Software Engineer", the first job of the category of the selectable skills
SuggestedJob == <<"s", "e">>

RECURSIVE TrimStart(_)
TrimStart(t) == IF t # <<>> /\ Head(t) = " " THEN TrimStart(Tail(t)) ELSE t

RECURSIVE TrimEnd(_)
TrimEnd(t) == IF t # <<>> /\ t[Len(t)] = " " THEN TrimEnd(SubSeq(t, 1, Len(t) - 1)) ELSE t

Trim(t) == TrimEnd(TrimStart(t))

OnboardingMounted ==
  [currentStep |-> 1, fullName |-> <<>>, dreamJob |-> <<>>, customJob |-> <<>>,
   isCustomJob |-> FALSE, selectedSkills |-> {}, resumeFile |-> FALSE,
   resumeSkills |-> <<>>, isParsingResume |-> FALSE, isSubmitting |-> FALSE]

\* failure is what went wrong with the LLM call of the last request, answer
\* what the handler answered
IdleResume ==
  [pc |-> "idle", failure |-> "none",
   answer |-> [status |-> 0, hasSkills |-> FALSE, skills |-> <<>>]]

IdleSubmit ==
  [pc |-> "idle", full_name |-> <<>>, dream_job |-> <<>>, skills |-> {}, outcome |-> "none"]

OnboardingShown == index.view = "onboarding" /\ ~index.isCheckingProfile

SuggestedJobs(selectedSkills) == IF selectedSkills = {} THEN {} ELSE {SuggestedJob}

CanProceedWithSkillsOnly(o) ==
  CASE o.currentStep = 1 -> Len(Trim(o.fullName)) > 0
    [] o.currentStep = 2 -> o.selectedSkills # {}
    [] o.currentStep = 3 -> Len(o.dreamJob) > 0 \/ (o.isCustomJob /\ Len(Trim(o.customJob)) > 0)
    [] o.currentStep = 4 -> TRUE
    [] OTHER -> FALSE

CanProceed(o) ==
  CASE o.currentStep = 1 -> Len(Trim(o.fullName)) > 0
    [] o.currentStep = 2 -> TRUE
    [] o.currentStep = 3 -> Len(o.dreamJob) > 0 \/ (o.isCustomJob /\ Len(Trim(o.customJob)) > 0)
    [] o.currentStep = 4 -> TRUE
    [] OTHER -> FALSE

OnboardingOnly == UNCHANGED <<dbVars, toast, index, checkRun, dashVars, learnVars, roadVars, serverVars,
                               resumeRun, submitRun>>

SetFullName(t) ==
  /\ OnboardingShown /\ onboarding.currentStep = 1
  /\ t # onboarding.fullName
  /\ onboarding' = [onboarding EXCEPT !.fullName = t]
  /\ OnboardingOnly

SkillToggle(skillName) ==
  /\ OnboardingShown /\ onboarding.currentStep = 2
  /\ onboarding' = [onboarding EXCEPT !.selectedSkills =
                      IF skillName \in @ THEN @ \ {skillName} ELSE @ \cup {skillName}]
  /\ OnboardingOnly

SelectJob(job) ==
  /\ OnboardingShown /\ onboarding.currentStep = 3
  /\ ~onboarding.isCustomJob
  /\ job \in SuggestedJobs(onboarding.selectedSkills)
  /\ onboarding.dreamJob # job
  /\ onboarding' = [onboarding EXCEPT !.dreamJob = job, !.isCustomJob = FALSE]
  /\ OnboardingOnly

CustomJobFocus ==
  /\ OnboardingShown /\ onboarding.currentStep = 3
  /\ ~onboarding.isCustomJob
  /\ onboarding' = [onboarding EXCEPT !.isCustomJob = TRUE]
  /\ OnboardingOnly

CustomJobInput(t) ==
  /\ OnboardingShown /\ onboarding.currentStep = 3
  /\ t # onboarding.customJob
  /\ onboarding' = [onboarding EXCEPT !.customJob = t, !.isCustomJob = TRUE, !.dreamJob = <<>>]
  /\ OnboardingOnly

ClearJob ==
  /\ OnboardingShown /\ onboarding.currentStep = 3
  /\ onboarding.dreamJob # <<>> \/ (onboarding.isCustomJob /\ onboarding.customJob # <<>>)
  /\ onboarding' = [onboarding EXCEPT !.dreamJob = <<>>, !.customJob = <<>>, !.isCustomJob = FALSE]
  /\ OnboardingOnly

Continue ==
  /\ OnboardingShown /\ onboarding.currentStep < 4
  /\ CanProceed(onboarding)
  /\ onboarding' = [onboarding EXCEPT !.currentStep = @ + 1]
  /\ OnboardingOnly

Back ==
  /\ OnboardingShown /\ onboarding.currentStep # 1
  /\ onboarding' = [onboarding EXCEPT !.currentStep = @ - 1]
  /\ OnboardingOnly

\* handleResumeUpload up to file.text()
ResumeUpload ==
  /\ OnboardingShown /\ onboarding.currentStep = 4
  /\ ~onboarding.isParsingResume
  /\ onboarding' = [onboarding EXCEPT !.resumeFile = TRUE, !.isParsingResume = TRUE]
  /\ resumeRun' = [resumeRun EXCEPT !.pc = "text"]
  /\ UNCHANGED <<dbVars, toast, index, checkRun, dashVars, learnVars, submitRun>>
  /\ UNCHANGED <<roadVars, serverVars>>

\* the text is read, the request is sent
ResumeRead ==
  /\ resumeRun.pc = "text"
  /\ resumeRun' = [resumeRun EXCEPT !.pc = "invoke"]
  /\ UNCHANGED <<dbVars, toast, index, checkRun, dashVars, learnVars, onboarding, submitRun>>
  /\ UNCHANGED <<roadVars, serverVars>>

\* the handler answers, handleResumeUpload runs to its end
ResumeInvoke(keyConfigured, up) ==
  /\ resumeRun.pc = "invoke"
  /\ LET answer == ParseResumeHandler(keyConfigured, up)
         skills == IF answer.hasSkills THEN answer.skills ELSE <<>>
     IN /\ resumeRun' = [pc |-> "idle", answer |-> answer,
                         failure |-> IF ~keyConfigured THEN "key missing"
                                     ELSE IF ~up.ok THEN "upstream status"
                                     ELSE IF ~up.text THEN "empty content"
                                     ELSE IF ~up.json THEN "invalid JSON"
                                     ELSE "no failure"]
        /\ toast' = IF answer.status = 200 THEN "Resume parsed!" ELSE "Error parsing resume"
        /\ onboarding' =
             IF index.view # "onboarding" THEN onboarding
             ELSE IF answer.status = 200
               THEN [onboarding EXCEPT !.resumeSkills = skills, !.isParsingResume = FALSE]
               ELSE [onboarding EXCEPT !.isParsingResume = FALSE]
  /\ UNCHANGED <<dbVars, index, checkRun, dashVars, learnVars, submitRun>>
  /\ UNCHANGED <<roadVars, serverVars>>

\* handleSubmit up to the update of the profile
SubmitClick ==
  /\ OnboardingShown /\ onboarding.currentStep = 4
  /\ ~onboarding.isSubmitting /\ ~onboarding.isParsingResume
  /\ submitRun.pc = "idle"
  /\ onboarding' = [onboarding EXCEPT !.isSubmitting = TRUE]
  /\ submitRun' = [pc |-> "profile",
                   full_name |-> onboarding.fullName,
                   dream_job |-> IF onboarding.isCustomJob THEN onboarding.customJob
                                                           ELSE onboarding.dreamJob,
                   skills |-> onboarding.selectedSkills \cup Range(onboarding.resumeSkills),
                   outcome |-> "none"]
  /\ UNCHANGED <<dbVars, toast, index, checkRun, dashVars, learnVars, resumeRun>>
  /\ UNCHANGED <<roadVars, serverVars>>

\* toast "Profile complete!", onComplete(): Index shows the Dashboard
SubmitDone ==
  /\ toast' = "Profile complete!"
  /\ index' = [index EXCEPT !.view = "dashboard"]
  /\ dashboard' = [DashboardMounted EXCEPT !.mount = dashboard.mount + 1]
  /\ onboarding' = OnboardingMounted
  /\ submitRun' = [submitRun EXCEPT !.pc = "idle", !.outcome = "completed"]

\* update profiles ... where user_id: no row, no error
SubmitProfile ==
  /\ submitRun.pc = "profile"
  /\ profiles' = IF profiles.exists
                   THEN [profiles EXCEPT !.full_name = submitRun.full_name,
                                         !.dream_job = submitRun.dream_job,
                                         !.onboarding_completed = TRUE]
                   ELSE profiles
  /\ IF submitRun.skills # {}
       THEN /\ submitRun' = [submitRun EXCEPT !.pc = "skills"]
            /\ UNCHANGED <<toast, index, dashboard, onboarding>>
       ELSE SubmitDone
  /\ UNCHANGED <<user_skills, learning_paths, skill_roadmaps, topic_progress, genCount,
                 checkRun, fetchRun, selectRun, resetRun, counters, learnVars, resumeRun>>
  /\ UNCHANGED <<roadVars, serverVars>>

\* insert into user_skills: UNIQUE(user_id, skill_name) rejects the whole insert
SubmitSkills ==
  /\ submitRun.pc = "skills"
  /\ IF submitRun.skills \cap user_skills # {}
       THEN /\ toast' = "Error saving profile"
            /\ onboarding' = [onboarding EXCEPT !.isSubmitting = FALSE]
            /\ submitRun' = [submitRun EXCEPT !.pc = "idle", !.outcome = "failed"]
            /\ UNCHANGED <<user_skills, index, dashboard>>
       ELSE /\ user_skills' = user_skills \cup submitRun.skills
            /\ SubmitDone
  /\ UNCHANGED <<profiles, learning_paths, skill_roadmaps, topic_progress, genCount,
                 checkRun, fetchRun, selectRun, resetRun, counters, learnVars, resumeRun>>
  /\ UNCHANGED <<roadVars, serverVars>>

(***************************************************************************)
(* Initial states.                                                         *)
(***************************************************************************)
\* the store once paths were generated, one was selected and a roadmap was saved
InitLessonStore ==
  /\ profiles = [exists |-> TRUE, full_name |-> <<"a">>, dream_job |-> JobTitle,
                 onboarding_completed |-> TRUE]
  /\ user_skills = {}
  /\ learning_paths = { IF r.path_type = "recommended" THEN [r EXCEPT !.is_selected = TRUE] ELSE r
                          : r \in PathRows(1, WellFormedPaths) }
  /\ skill_roadmaps = { [id |-> RoadmapId, learning_path_id |-> <<1, 1>>,
                        skill_name |-> "skill-1", roadmap_data |-> "topics"] }
  /\ genCount = 1

InitIdle ==
  /\ toast = "none"
  /\ checkRun = [pc |-> "idle"]
  /\ dashboard = DashboardMounted
  /\ fetchRun = [f \in FetchRuns |-> IdleFetch]
  /\ selectRun = [s \in SelectRuns |-> IdleSelect]
  /\ resetRun = IdleReset
  /\ counters = [loads |-> 0, clicks |-> 0, resets |-> 0, navs |-> 0]
  /\ learning = LearningMounted
  /\ contentRun = [g \in ContentRuns |-> IdleContent]
  /\ sectionRun = [c \in SectionRuns |-> IdleSection]
  /\ quizRun = IdleQuiz
  /\ markRun = IdleMark
  /\ onboarding = OnboardingMounted
  /\ resumeRun = IdleResume
  /\ submitRun = IdleSubmit
  /\ skillRoadmaps = RoadmapsMounted
  /\ existingRun = IdleExisting
  /\ roadmapRun = [r \in RoadmapRuns |-> IdleRoadmap]
  /\ otherUser = Tables
  /\ resetDataRun = IdleResetData
  /\ auth = SignedIn

(***************************************************************************)
(* The Dashboard with two overlapping loads and two overlapping clicks.    *)
(***************************************************************************)
InitStore ==
  /\ profiles \in { [exists |-> TRUE, full_name |-> <<"a">>, dream_job |-> j,
                     onboarding_completed |-> TRUE] : j \in {<<>>, JobTitle} }
  /\ user_skills = {}
  /\ learning_paths = {}
  /\ skill_roadmaps = {}
  /\ topic_progress = {}
  /\ genCount = 0

InitDashboard ==
  /\ InitStore
  /\ InitIdle
  /\ index = [view |-> "dashboard", selectedPath |-> NoId, isCheckingProfile |-> FALSE]

NextDashboard ==
  \/ \E f \in FetchRuns : FetchStart(f)
  \/ \E f \in FetchRuns : FetchProfile(f)
  \/ \E f \in FetchRuns : FetchPaths(f)
  \/ \E f \in FetchRuns : FetchSkills(f)
  \/ \E f \in FetchRuns, key \in BOOLEAN, up \in DashboardUpstream : GenInvoke(f, key, up)
  \/ \E f \in FetchRuns : GenInsert(f)
  \/ \E s \in SelectRuns, i \in 1..(2 * MaxPaths) : SelectClick(s, i)
  \/ \E s \in SelectRuns : SelectDeselect(s)
  \/ \E s \in SelectRuns : SelectSelect(s)
  \/ ContinueToRoadmaps
  \/ RoadmapsBack
  \/ \E isFullWipe \in BOOLEAN : ResetClick(isFullWipe)
  \/ ResetDeletePaths
  \/ ResetDeleteRoadmaps
  \/ ResetDeleteProgress
  \/ ResetDeleteSkills
  \/ ResetDeleteProfile
  \/ ResetUpdateProfile
  \/ ResetReload
  \/ \E error \in BOOLEAN : CheckProfile(error)
  \/ \E error \in BOOLEAN : CheckPaths(error)

SpecDashboard == InitDashboard /\ [][NextDashboard]_vars

\* one load at a time, whatever the LLM answers
NextGenerate ==
  \/ FetchStart("f1")
  \/ FetchProfile("f1")
  \/ FetchPaths("f1")
  \/ FetchSkills("f1")
  \/ \E key \in BOOLEAN, up \in AllUpstream : GenInvoke("f1", key, up)
  \/ GenInsert("f1")

SpecGenerate == InitDashboard /\ [][NextGenerate]_vars

(***************************************************************************)
(* The lesson view.                                                        *)
(***************************************************************************)
InitLearning ==
  /\ InitLessonStore
  /\ topic_progress = {}
  /\ InitIdle
  /\ index = [view |-> "roadmaps", selectedPath |-> <<1, 1>>, isCheckingProfile |-> FALSE]

\* lessons are opened, left and navigated; sections are read
NextContent ==
  \/ \E g \in ContentRuns, i \in DOMAIN Subtopics : OpenLearning(g, i)
  \/ \E g \in ContentRuns, i \in DOMAIN Subtopics : Navigate(g, i)
  \/ LearningBack
  \/ \E g \in ContentRuns : ContentSelect(g)
  \/ \E g \in ContentRuns, sub \in Range(Subtopics) :
        \E reply \in ContentReplies(sub) : ContentInvoke(g, reply)
  \/ \E g \in ContentRuns : ContentSave(g)
  \/ \E g \in ContentRuns : CheckCompletion(g)
  \/ \E i \in 1..MaxSections : SectionShow(i)
  \/ \E i \in 1..MaxSections : SectionClick("c1", i)
  \/ \E failed \in BOOLEAN : SectionInvoke("c1", failed)
  \/ SectionSave("c1")

SpecContent == InitLearning /\ [][NextContent]_vars

\* one lesson load at a time: the next visit starts when the load has returned
NextCache ==
  \/ \E i \in DOMAIN Subtopics : OpenLearning("g1", i)
  \/ \E i \in DOMAIN Subtopics : Navigate("g1", i)
  \/ LearningBack
  \/ ContentSelect("g1")
  \/ \E sub \in Range(Subtopics) : \E reply \in ContentReplies(sub) : ContentInvoke("g1", reply)
  \/ ContentSave("g1")
  \/ CheckCompletion("g1")

SpecCache == InitLearning /\ [][NextCache]_vars

(***************************************************************************)
(* A lesson whose requests are answered by the lesson-content handler.     *)
(***************************************************************************)
NextLesson ==
  \/ \E i \in DOMAIN Subtopics : OpenLearning("g1", i)
  \/ LearningBack
  \/ ContentSelect("g1")
  \/ \E keyConfigured \in BOOLEAN, sub \in Range(Subtopics) :
        \E up \in LessonUpstream(sub) : ContentRequest("g1", keyConfigured, up)
  \/ ContentSave("g1")
  \/ CheckCompletion("g1")
  \/ \E i \in 1..MaxSections : SectionShow(i)
  \/ \E i \in 1..MaxSections : SectionClick("c1", i)
  \/ \E keyConfigured \in BOOLEAN, up \in LessonUpstream(NoSub) :
        SectionRequest("c1", keyConfigured, up)
  \/ SectionSave("c1")
  \/ StartQuiz
  \/ \E keyConfigured \in BOOLEAN, up \in LessonUpstream(NoSub) : QuizRequest(keyConfigured, up)
  \/ CloseQuiz

SpecLesson == InitLearning /\ [][NextLesson]_vars

(***************************************************************************)
(* The quiz of an open lesson.                                             *)
(***************************************************************************)
\* the lesson of the first subtopic is shown; its content was cached in the
\* progress row when sections were generated, and there is no row otherwise
LessonSections == <<<<Subtopics[1], 1>>>>
LessonContent == WithContent(NoContent, LessonSections[1], <<Subtopics[1], LessonSections[1]>>)

InitQuiz ==
  /\ InitLessonStore
  /\ toast = "none"
  /\ checkRun = [pc |-> "idle"]
  /\ dashboard = DashboardMounted
  /\ fetchRun = [f \in FetchRuns |-> IdleFetch]
  /\ selectRun = [s \in SelectRuns |-> IdleSelect]
  /\ resetRun = IdleReset
  /\ counters = [loads |-> 0, clicks |-> 0, resets |-> 0, navs |-> 0]
  /\ sectionRun = [c \in SectionRuns |-> IdleSection]
  /\ quizRun = IdleQuiz
  /\ markRun = IdleMark
  /\ onboarding = OnboardingMounted
  /\ resumeRun = IdleResume
  /\ submitRun = IdleSubmit
  /\ skillRoadmaps = RoadmapsMounted
  /\ existingRun = IdleExisting
  /\ roadmapRun = [r \in RoadmapRuns |-> IdleRoadmap]
  /\ otherUser = Tables
  /\ resetDataRun = IdleResetData
  /\ auth = SignedIn
  /\ index = [view |-> "learning", selectedPath |-> <<1, 1>>, isCheckingProfile |-> FALSE]
  /\ \E cached \in BOOLEAN :
       /\ learning = IF cached
                       THEN [LearningMounted EXCEPT !.mount = 1, !.subtopic = Subtopics[1],
                               !.isLoading = FALSE, !.sections = LessonSections,
                               !.currentSection = LessonSections[1],
                               !.sectionContent = LessonContent]
                       ELSE [LearningMounted EXCEPT !.mount = 1, !.subtopic = Subtopics[1],
                               !.isLoading = FALSE]
       /\ contentRun = [g \in ContentRuns |->
                          IF g = "g1"
                            THEN [IdleContent EXCEPT !.outcome = IF cached THEN "generated"
                                                                           ELSE "failed"]
                            ELSE IdleContent]
       /\ topic_progress = IF cached
                              THEN {CacheRow(Subtopics[1], LessonSections, LessonContent)}
                              ELSE {}

NextQuiz ==
  \/ StartQuiz
  \/ \E reply \in QuizReplies(MaxQuestions) : QuizInvoke(reply)
  \/ CloseQuiz
  \/ \E q \in 1..MaxQuestions, a \in Options : AnswerSelect(q, a)
  \/ SubmitQuiz
  \/ MarkUpsert

SpecQuiz == InitQuiz /\ [][NextQuiz]_vars

(***************************************************************************)
(* Lessons, quizzes and resets over one store.                             *)
(***************************************************************************)
\* the quiz of these lessons fails to generate or has one question
ShortQuizReplies ==
  { r \in QuizReplies(MaxQuestions) : r.error \/ Len(r.questions) = 1 }

\* a lesson is opened, read, left and mastered; the user goes back to the
\* Dashboard and resets, while requests of the lesson may still be in flight
NextProgress ==
  \/ \E i \in DOMAIN Subtopics : OpenLearning("g1", i)
  \/ LearningBack
  \/ ContentSelect("g1")
  \/ \E sub \in Range(Subtopics) : \E reply \in ContentReplies(sub) : ContentInvoke("g1", reply)
  \/ ContentSave("g1")
  \/ CheckCompletion("g1")
  \/ \E i \in 1..MaxSections : SectionClick("c1", i)
  \/ \E failed \in BOOLEAN : SectionInvoke("c1", failed)
  \/ SectionSave("c1")
  \/ StartQuiz
  \/ \E reply \in ShortQuizReplies : QuizInvoke(reply)
  \/ \E a \in Options : AnswerSelect(1, a)
  \/ SubmitQuiz
  \/ MarkUpsert
  \/ RoadmapsBack
  \/ FetchStart("f1")
  \/ FetchProfile("f1")
  \/ FetchPaths("f1")
  \/ \E isFullWipe \in BOOLEAN : ResetClick(isFullWipe)
  \/ ResetDeletePaths
  \/ ResetDeleteRoadmaps
  \/ ResetDeleteProgress
  \/ ResetDeleteSkills
  \/ ResetDeleteProfile
  \/ ResetUpdateProfile
  \/ ResetReload

SpecProgress == InitLearning /\ [][NextProgress]_vars

(***************************************************************************)
(* The roadmaps of the selected path: SkillRoadmaps has just been mounted, *)
(* fetchExistingRoadmaps is in flight, the roadmap of one skill is stored. *)
(***************************************************************************)
InitRoadmaps ==
  /\ InitLessonStore
  /\ topic_progress = {}
  /\ toast = "none"
  /\ checkRun = [pc |-> "idle"]
  /\ dashboard = DashboardMounted
  /\ fetchRun = [f \in FetchRuns |-> IdleFetch]
  /\ selectRun = [s \in SelectRuns |-> IdleSelect]
  /\ resetRun = IdleReset
  /\ counters = [loads |-> 0, clicks |-> 0, resets |-> 0, navs |-> 0]
  /\ learning = LearningMounted
  /\ contentRun = [g \in ContentRuns |-> IdleContent]
  /\ sectionRun = [c \in SectionRuns |-> IdleSection]
  /\ quizRun = IdleQuiz
  /\ markRun = IdleMark
  /\ onboarding = OnboardingMounted
  /\ resumeRun = IdleResume
  /\ submitRun = IdleSubmit
  /\ index = [view |-> "roadmaps", selectedPath |-> <<1, 1>>, isCheckingProfile |-> FALSE]
  /\ skillRoadmaps = [RoadmapsMounted EXCEPT !.mount = 1]
  /\ existingRun = [pc |-> "select", mount |-> 1]
  /\ roadmapRun = [r \in RoadmapRuns |-> IdleRoadmap]
  /\ otherUser = Tables
  /\ resetDataRun = IdleResetData
  /\ auth = SignedIn

NextRoadmaps ==
  \/ ExistingSelect
  \/ \E skillName \in SkillNames : SkillExpand(skillName)
  \/ \E r \in RoadmapRuns, skillName \in SkillNames : SkillClick(r, skillName)
  \/ \E r \in RoadmapRuns, keyConfigured \in BOOLEAN, up \in RoadmapUpstream :
        RoadmapInvoke(r, keyConfigured, up)
  \/ \E r \in RoadmapRuns : RoadmapInsert(r)

SpecRoadmaps == InitRoadmaps /\ [][NextRoadmaps]_vars

(***************************************************************************)
(* Resets: handleReset from the Dashboard and a request to reset-data,     *)
(* with the rows of a second user in the store.                            *)
(***************************************************************************)
InitResets ==
  /\ InitLessonStore
  /\ topic_progress = {CacheRow(Subtopics[1], LessonSections, LessonContent)}
  /\ InitIdle
  /\ index = [view |-> "dashboard", selectedPath |-> NoId, isCheckingProfile |-> FALSE]

NextResets ==
  \/ FetchStart("f1")
  \/ FetchProfile("f1")
  \/ FetchPaths("f1")
  \/ \E isFullWipe \in BOOLEAN : ResetClick(isFullWipe)
  \/ ResetDeletePaths
  \/ ResetDeleteRoadmaps
  \/ ResetDeleteProgress
  \/ ResetDeleteSkills
  \/ ResetDeleteProfile
  \/ ResetUpdateProfile
  \/ ResetReload
  \/ \E isFullWipe \in BOOLEAN : ResetDeclined(isFullWipe)
  \/ ResetDataRequest
  \/ ResetDataDelete

SpecResets == InitResets /\ [][NextResets]_vars

(***************************************************************************)
(* Every call of the client to an LLM-backed handler: the resume upload of *)
(* the Onboarding, the generation of paths of the Dashboard, the roadmap   *)
(* of a skill, and the content, a section and the quiz of a lesson.        *)
(***************************************************************************)
\* the user is at the last step of the Onboarding, on a Dashboard whose
\* paths are not generated yet, or at the roadmaps of the selected path
InitCalls ==
  /\ toast = "none"
  /\ checkRun = [pc |-> "idle"]
  /\ dashboard = DashboardMounted
  /\ fetchRun = [f \in FetchRuns |-> IdleFetch]
  /\ selectRun = [s \in SelectRuns |-> IdleSelect]
  /\ resetRun = IdleReset
  /\ counters = [loads |-> 0, clicks |-> 0, resets |-> 0, navs |-> 0]
  /\ learning = LearningMounted
  /\ contentRun = [g \in ContentRuns |-> IdleContent]
  /\ sectionRun = [c \in SectionRuns |-> IdleSection]
  /\ quizRun = IdleQuiz
  /\ markRun = IdleMark
  /\ resumeRun = IdleResume
  /\ submitRun = IdleSubmit
  /\ roadmapRun = [r \in RoadmapRuns |-> IdleRoadmap]
  /\ otherUser = Tables
  /\ resetDataRun = IdleResetData
  /\ auth = SignedIn
  /\ \/ /\ index = [view |-> "onboarding", selectedPath |-> NoId, isCheckingProfile |-> FALSE]
        /\ profiles = [exists |-> TRUE, full_name |-> <<>>, dream_job |-> <<>>,
                       onboarding_completed |-> FALSE]
        /\ user_skills = {} /\ learning_paths = {} /\ skill_roadmaps = {}
        /\ topic_progress = {} /\ genCount = 0
        /\ onboarding = [OnboardingMounted EXCEPT !.currentStep = 4, !.fullName = <<" ", "a">>,
                                                  !.dreamJob = SuggestedJob]
        /\ skillRoadmaps = RoadmapsMounted
        /\ existingRun = IdleExisting
     \/ /\ index = [view |-> "dashboard", selectedPath |-> NoId, isCheckingProfile |-> FALSE]
        /\ InitStore
        /\ onboarding = OnboardingMounted
        /\ skillRoadmaps = RoadmapsMounted
        /\ existingRun = IdleExisting
     \/ /\ index = [view |-> "roadmaps", selectedPath |-> <<1, 1>>, isCheckingProfile |-> FALSE]
        /\ InitLessonStore
        /\ topic_progress = {}
        /\ onboarding = OnboardingMounted
        /\ skillRoadmaps = [RoadmapsMounted EXCEPT !.mount = 1]
        /\ existingRun = [pc |-> "select", mount |-> 1]

NextCalls ==
  \/ ResumeUpload
  \/ ResumeRead
  \/ \E keyConfigured \in BOOLEAN, up \in ResumeUpstream : ResumeInvoke(keyConfigured, up)
  \/ FetchStart("f1")
  \/ FetchProfile("f1")
  \/ FetchPaths("f1")
  \/ FetchSkills("f1")
  \/ \E keyConfigured \in BOOLEAN, up \in DashboardUpstream : GenInvoke("f1", keyConfigured, up)
  \/ GenInsert("f1")
  \/ ExistingSelect
  \/ \E skillName \in SkillNames : SkillClick("r1", skillName)
  \/ \E keyConfigured \in BOOLEAN, up \in RoadmapUpstream : RoadmapInvoke("r1", keyConfigured, up)
  \/ RoadmapInsert("r1")
  \/ \E i \in DOMAIN Subtopics : OpenLearning("g1", i)
  \/ ContentSelect("g1")
  \/ \E keyConfigured \in BOOLEAN, sub \in Range(Subtopics) :
        \E up \in LessonUpstream(sub) : ContentRequest("g1", keyConfigured, up)
  \/ ContentSave("g1")
  \/ CheckCompletion("g1")
  \/ \E i \in 1..MaxSections : SectionClick("c1", i)
  \/ \E keyConfigured \in BOOLEAN, up \in LessonUpstream(NoSub) :
        SectionRequest("c1", keyConfigured, up)
  \/ SectionSave("c1")
  \/ StartQuiz
  \/ \E keyConfigured \in BOOLEAN, up \in LessonUpstream(NoSub) : QuizRequest(keyConfigured, up)

SpecCalls == InitCalls /\ [][NextCalls]_vars

(***************************************************************************)
(* Lazily fetched sections: a lesson of three sections is shown, the       *)
(* content of the first came with the list and is cached in the progress   *)
(* row; the buttons of the other sections stay enabled while a request is  *)
(* on its way, so two runs of handleSectionClick may overlap.              *)
(***************************************************************************)
LazySections == <<<<Subtopics[1], 1>>, <<Subtopics[1], 2>>, <<Subtopics[1], 3>>>>
LazyContent == WithContent(NoContent, LazySections[1], <<Subtopics[1], LazySections[1]>>)

InitSections ==
  /\ InitLessonStore
  /\ topic_progress = {CacheRow(Subtopics[1], LazySections, LazyContent)}
  /\ toast = "none"
  /\ checkRun = [pc |-> "idle"]
  /\ dashboard = DashboardMounted
  /\ fetchRun = [f \in FetchRuns |-> IdleFetch]
  /\ selectRun = [s \in SelectRuns |-> IdleSelect]
  /\ resetRun = IdleReset
  /\ counters = [loads |-> 0, clicks |-> 0, resets |-> 0, navs |-> 0]
  /\ learning = [LearningMounted EXCEPT !.mount = 1, !.subtopic = Subtopics[1],
                   !.isLoading = FALSE, !.sections = LazySections,
                   !.currentSection = LazySections[1], !.sectionContent = LazyContent]
  /\ contentRun = [g \in ContentRuns |->
                     IF g = "g1" THEN [IdleContent EXCEPT !.outcome = "generated"]
                                 ELSE IdleContent]
  /\ sectionRun = [c \in SectionRuns |-> IdleSection]
  /\ quizRun = IdleQuiz
  /\ markRun = IdleMark
  /\ onboarding = OnboardingMounted
  /\ resumeRun = IdleResume
  /\ submitRun = IdleSubmit
  /\ skillRoadmaps = RoadmapsMounted
  /\ existingRun = IdleExisting
  /\ roadmapRun = [r \in RoadmapRuns |-> IdleRoadmap]
  /\ otherUser = Tables
  /\ resetDataRun = IdleResetData
  /\ auth = SignedIn
  /\ index = [view |-> "learning", selectedPath |-> <<1, 1>>, isCheckingProfile |-> FALSE]

NextSections ==
  \/ \E i \in DOMAIN LazySections : SectionShow(i)
  \/ \E c \in SectionRuns, i \in DOMAIN LazySections : SectionClick(c, i)
  \/ \E c \in SectionRuns, keyConfigured \in BOOLEAN, up \in LessonUpstream(NoSub) :
        SectionRequest(c, keyConfigured, up)
  \/ \E c \in SectionRuns : SectionSave(c)

SpecSections == InitSections /\ [][NextSections]_vars

(***************************************************************************)
(* Busy flags: every operation that sets a busy flag, from each of the     *)
(* pages on which one can be started.  A request that was sent is answered *)
(* (with a result or with an error) and an effect runs after its mount,   *)
(* so these steps are weakly fair; the steps of the user are not.          *)
(***************************************************************************)
InitBusy ==
  /\ toast = "none"
  /\ dashboard = DashboardMounted
  /\ fetchRun = [f \in FetchRuns |-> IdleFetch]
  /\ selectRun = [s \in SelectRuns |-> IdleSelect]
  /\ resetRun = IdleReset
  /\ counters = [loads |-> 0, clicks |-> 0, resets |-> 0, navs |-> 0]
  /\ sectionRun = [c \in SectionRuns |-> IdleSection]
  /\ quizRun = IdleQuiz
  /\ markRun = IdleMark
  /\ resumeRun = IdleResume
  /\ submitRun = IdleSubmit
  /\ roadmapRun = [r \in RoadmapRuns |-> IdleRoadmap]
  /\ otherUser = Tables
  /\ resetDataRun = IdleResetData
  /\ auth = SignedIn
  /\ \/ /\ index = [view |-> "landing", selectedPath |-> NoId, isCheckingProfile |-> TRUE]
        /\ checkRun = [pc |-> "profile"]
        /\ InitStore \/ (InitLessonStore /\ topic_progress = {})
        /\ onboarding = OnboardingMounted
        /\ skillRoadmaps = RoadmapsMounted
        /\ existingRun = IdleExisting
        /\ learning = LearningMounted
        /\ contentRun = [g \in ContentRuns |-> IdleContent]
     \/ /\ index = [view |-> "onboarding", selectedPath |-> NoId, isCheckingProfile |-> FALSE]
        /\ checkRun = [pc |-> "idle"]
        /\ profiles = [exists |-> TRUE, full_name |-> <<>>, dream_job |-> <<>>,
                       onboarding_completed |-> FALSE]
        /\ user_skills \in {{}, {"JavaScript"}}
        /\ learning_paths = {} /\ skill_roadmaps = {}
        /\ topic_progress = {} /\ genCount = 0
        /\ onboarding = [OnboardingMounted EXCEPT !.currentStep = 4, !.fullName = <<" ", "a">>,
                                                  !.dreamJob = SuggestedJob,
                                                  !.selectedSkills = {"JavaScript"}]
        /\ skillRoadmaps = RoadmapsMounted
        /\ existingRun = IdleExisting
        /\ learning = LearningMounted
        /\ contentRun = [g \in ContentRuns |-> IdleContent]
     \/ /\ index = [view |-> "roadmaps", selectedPath |-> <<1, 1>>, isCheckingProfile |-> FALSE]
        /\ checkRun = [pc |-> "idle"]
        /\ InitLessonStore
        /\ topic_progress = {}
        /\ onboarding = OnboardingMounted
        /\ skillRoadmaps = [RoadmapsMounted EXCEPT !.mount = 1]
        /\ existingRun = [pc |-> "select", mount |-> 1]
        /\ learning = LearningMounted
        /\ contentRun = [g \in ContentRuns |-> IdleContent]
     \/ /\ index = [view |-> "learning", selectedPath |-> <<1, 1>>, isCheckingProfile |-> FALSE]
        /\ checkRun = [pc |-> "idle"]
        /\ InitLessonStore
        /\ topic_progress = {}
        /\ onboarding = OnboardingMounted
        /\ skillRoadmaps = [RoadmapsMounted EXCEPT !.mount = 1]
        /\ existingRun = IdleExisting
        /\ \E i \in DOMAIN Subtopics :
              /\ learning = StartContent([LearningMounted EXCEPT !.mount = 1], Subtopics[i])
              /\ contentRun = [g \in ContentRuns |->
                                 IF g = "g1"
                                   THEN [IdleContent EXCEPT !.pc = "select", !.check = "select",
                                                            !.mount = 1, !.subtopic = Subtopics[i]]
                                   ELSE IdleContent]

\* the steps of the user
BusyUser ==
  \/ ResumeUpload
  \/ SubmitClick
  \/ \E skillName \in SkillNames : SkillClick("r1", skillName)
  \/ \E i \in 1..MaxSections : SectionClick("c1", i)
  \/ StartQuiz
  \/ AnswerSelect(1, 1)
  \/ SubmitQuiz

\* the steps of the runs: each is what follows the answer to an await
CheckSteps == \E error \in BOOLEAN : CheckProfile(error) \/ CheckPaths(error)
ResumeSteps ==
  \/ ResumeRead
  \/ \E keyConfigured \in BOOLEAN, up \in ResumeUpstream : ResumeInvoke(keyConfigured, up)
SubmitSteps == SubmitProfile \/ SubmitSkills
FetchSteps ==
  \/ FetchStart("f1")
  \/ FetchProfile("f1")
  \/ FetchPaths("f1")
  \/ FetchSkills("f1")
  \/ \E keyConfigured \in BOOLEAN, up \in DashboardUpstream : GenInvoke("f1", keyConfigured, up)
  \/ GenInsert("f1")
RoadmapSteps ==
  \/ \E keyConfigured \in BOOLEAN, up \in RoadmapUpstream : RoadmapInvoke("r1", keyConfigured, up)
  \/ RoadmapInsert("r1")
ContentSteps ==
  \/ ContentSelect("g1")
  \/ \E keyConfigured \in BOOLEAN, sub \in Range(Subtopics) :
        \E up \in LessonUpstream(sub) : ContentRequest("g1", keyConfigured, up)
  \/ ContentSave("g1")
  \/ CheckCompletion("g1")
SectionSteps ==
  \/ \E keyConfigured \in BOOLEAN, up \in LessonUpstream(NoSub) :
        SectionRequest("c1", keyConfigured, up)
  \/ SectionSave("c1")
QuizSteps == \E reply \in ShortQuizReplies : QuizInvoke(reply)
MarkSteps == MarkUpsert

NextBusy ==
  \/ BusyUser
  \/ CheckSteps
  \/ ResumeSteps
  \/ SubmitSteps
  \/ FetchSteps
  \/ ExistingSelect
  \/ RoadmapSteps
  \/ ContentSteps
  \/ SectionSteps
  \/ QuizSteps
  \/ MarkSteps

SpecBusy ==
  /\ InitBusy /\ [][NextBusy]_vars
  /\ WF_vars(CheckSteps) /\ WF_vars(ResumeSteps) /\ WF_vars(SubmitSteps)
  /\ WF_vars(FetchSteps) /\ WF_vars(ExistingSelect) /\ WF_vars(RoadmapSteps)
  /\ WF_vars(ContentSteps)
  /\ WF_vars(SectionSteps) /\ WF_vars(QuizSteps) /\ WF_vars(MarkSteps)

(***************************************************************************)
(* A quiz and Previous/Next: the footer with the two buttons is rendered   *)
(* below the lesson and below the quiz alike.                              *)
(***************************************************************************)
NextQuizNavigation ==
  \/ \E i \in DOMAIN Subtopics : OpenLearning("g1", i)
  \/ \E i \in DOMAIN Subtopics : Navigate("g1", i)
  \/ ContentSelect("g1")
  \/ \E sub \in Range(Subtopics) : \E reply \in ContentReplies(sub) : ContentInvoke("g1", reply)
  \/ ContentSave("g1")
  \/ CheckCompletion("g1")
  \/ StartQuiz
  \/ \E reply \in ShortQuizReplies : QuizInvoke(reply)
  \/ CloseQuiz
  \/ \E a \in Options : AnswerSelect(1, a)
  \/ SubmitQuiz
  \/ MarkUpsert

SpecQuizNavigation == InitLearning /\ [][NextQuizNavigation]_vars

(***************************************************************************)
(* The session ends while operations are on their way.  A click is handled *)
(* after the pending effect has run; the answer to a request is not held   *)
(* back by it.                                                             *)
(***************************************************************************)
NextSignOut ==
  \/ SignOut
  \/ AuthEffect
  \/ auth.effectRun /\ BusyUser
  \/ CheckSteps
  \/ ResumeSteps
  \/ SubmitSteps
  \/ FetchSteps
  \/ ExistingSelect
  \/ RoadmapSteps
  \/ ContentSteps
  \/ SectionSteps
  \/ QuizSteps
  \/ MarkSteps

SpecSignOut == InitBusy /\ [][NextSignOut]_vars

(***************************************************************************)
(* Onboarding of a signed-up user.                                         *)
(***************************************************************************)
\* the profile row was created at sign-up; skills are stored already when the
\* user onboards again after a Change Goal reset
InitOnboarding ==
  /\ profiles = [exists |-> TRUE, full_name |-> <<>>, dream_job |-> <<>>,
                 onboarding_completed |-> FALSE]
  /\ user_skills \in { {}, {"JavaScript"} }
  /\ learning_paths = {}
  /\ skill_roadmaps = {}
  /\ topic_progress = {}
  /\ genCount = 0
  /\ InitIdle
  /\ index = [view |-> "onboarding", selectedPath |-> NoId, isCheckingProfile |-> FALSE]

NextOnboarding ==
  \/ \E t \in Texts : SetFullName(t)
  \/ \E skillName \in SelectableSkills : SkillToggle(skillName)
  \/ \E job \in {SuggestedJob} : SelectJob(job)
  \/ CustomJobFocus
  \/ \E t \in Texts : CustomJobInput(t)
  \/ ClearJob
  \/ Continue
  \/ Back
  \/ ResumeUpload
  \/ ResumeRead
  \/ \E keyConfigured \in BOOLEAN, up \in ResumeUpstream : ResumeInvoke(keyConfigured, up)
  \/ SubmitClick
  \/ SubmitProfile
  \/ SubmitSkills

SpecOnboarding == InitOnboarding /\ [][NextOnboarding]_vars

(***************************************************************************)
(* Properties.                                                             *)
(***************************************************************************)
SelectedRows == { r \in learning_paths : r.is_selected }

\* C1: at most one row of learning_paths has is_selected = true, in every
\* reachable state, also when two handleSelectPath calls interleave.
C1_AtMostOneSelected == Cardinality(SelectedRows) <= 1

RowsOfGeneration(gen) == { r \in learning_paths : r.id[1] = gen }

\* C2: every generation that ends in success has inserted exactly three
\* paths, one of each of the types recommended, easier and professional.
C2_ThreeTaggedPaths ==
  \A f \in FetchRuns :
    fetchRun[f].outcome = "generated" =>
      /\ Cardinality(RowsOfGeneration(fetchRun[f].gen)) = 3
      /\ { r.path_type : r \in RowsOfGeneration(fetchRun[f].gen) } = PathTypes

\* C3: no stored path has fewer than 4 or more than 8 skills or a type
\* outside the three path types: such a reply is never inserted.
C3_SchemaValidated ==
  \A r \in learning_paths : r.nskills >= 4 /\ r.nskills <= 8 /\ r.path_type \in PathTypes

\* C4: the stored paths are exactly the three rows of the most recent
\* generation; rows of an earlier or concurrent generation do not remain.
C4_OnlyLatestGeneration ==
  \/ learning_paths = {}
  \/ /\ Cardinality(learning_paths) = 3
     /\ \A r \in learning_paths : r.id[1] = genCount

MarkReturns == markRun.pc = "upsert" /\ markRun'.pc = "idle"

CorrectAnswers ==
  Cardinality({ i \in DOMAIN learning.quizQuestions :
                  /\ i \in DOMAIN learning.userAnswers
                  /\ learning.userAnswers[i] = learning.quizQuestions[i].correctAnswer })
FullyAnswered == \A i \in DOMAIN learning.userAnswers : learning.userAnswers[i] \in Options
MarkStarts == markRun.pc = "idle" /\ markRun'.pc = "upsert"

\* C6: a fully answered quiz of n >= 1 questions with s correct answers is
\* treated as passed, and markAsComplete is called, exactly when 10*s >= 6*n.
C6_PassAtSixtyPercent ==
  [][(SubmitQuiz /\ FullyAnswered) =>
       (MarkStarts <=> 10 * CorrectAnswers >= 6 * Len(learning.quizQuestions))]_vars

\* C6 happens: a quiz of five questions is passed with three correct answers
C6_Witness ==
  /\ markRun.pc = "upsert"
  /\ Len(learning.quizQuestions) = 5
  /\ learning.quizSubmitted /\ learning.quizScore = 3

\* C7: a submission that fails or that is rejected because a question is
\* unanswered starts no markAsComplete and leaves the progress rows and the
\* component's isCompleted as they were.
C7_FailedQuizKeepsProgress ==
  [][(SubmitQuiz /\ (~FullyAnswered \/ 10 * CorrectAnswers < 6 * Len(learning.quizQuestions))) =>
       /\ topic_progress' = topic_progress
       /\ markRun' = markRun
       /\ ~learning.isCompleted /\ ~learning'.isCompleted]_vars

\* C7 happens: a quiz was failed over a row that caches the lesson
C7_Witness ==
  /\ toast = "Quiz Not Passed"
  /\ learning.quizSubmitted /\ ~learning.isCompleted
  /\ markRun.pc = "idle"
  /\ \E t \in topic_progress : t.subtopic_id = learning.subtopic /\ ~t.is_completed

LlmCallFailed == resumeRun.failure \in {"key missing", "upstream status", "empty content", "invalid JSON"}

SubmitProfileReturns == submitRun.pc = "profile" /\ submitRun'.pc # "profile"

SelectReturns(g) == contentRun[g].pc = "select" /\ contentRun'[g].pc # "select"
LoadedFromRow(g) == contentRun'[g].outcome = "cached" /\ contentRun'[g].pc # "invoke"
StoredSections(sub) == { t.notes.sections : t \in ProgressRow(sub) }

\* C10: once a non-empty section list is stored in the notes of the row of a
\* key, a later generateContent for the key loads the sections from the row
\* and does not call the generate-learning-content handler.
C10_NonEmptyCacheIsReused ==
  [][\A g \in ContentRuns :
       (SelectReturns(g) /\ \E ss \in StoredSections(contentRun[g].subtopic) : ss # <<>>)
         => LoadedFromRow(g)]_vars

\* C10 as stated: the same for every stored section list
C10_StoredSectionsAreReused ==
  [][\A g \in ContentRuns :
       (SelectReturns(g) /\ StoredSections(contentRun[g].subtopic) # {})
         => LoadedFromRow(g)]_vars

\* C10 happens: a lesson was loaded from its row
C10_Witness ==
  /\ \E g \in ContentRuns : contentRun[g].outcome = "cached"
  /\ LearningShown /\ ~learning.isLoading /\ learning.sections # <<>>
  /\ learning.sections \in StoredSections(learning.subtopic)


\* the handler answers startQuiz's request with the key configured and an
\* LLM reply that has a first choice
QuizAnswered ==
  \E up \in LessonUpstream(NoSub) : up.choices /\ QuizRequest(TRUE, up)

\* C11: when the lesson-content handler answers the quiz request of a lesson
\* that is still shown with its quiz open, startQuiz ends with a non-empty
\* quizQuestions and showQuiz still true
C11_QuizRequestYieldsQuestions ==
  [][QuizAnswered /\ StillMounted(quizRun) /\ learning.showQuiz
       => learning'.quizQuestions # <<>> /\ learning'.showQuiz]_vars

\* C12: topic_progress holds at most one row per (user, roadmap, topic, subtopic)
\* and the roadmap_id of every row is the id of a stored skill_roadmaps row
C12_ProgressUniqueAndReferenced ==
  /\ \A t1, t2 \in topic_progress : ProgressKey(t1) = ProgressKey(t2) => t1 = t2
  /\ \A t \in topic_progress : \E r \in skill_roadmaps : r.id = t.roadmap_id

\* a second write under a stored key was attempted by markAsComplete and refused
C12_Witness ==
  /\ toast = "Error"
  /\ \E t \in topic_progress : ~t.is_completed

\* C13: skill_roadmaps holds at most one row per (user, learning path, skill name)
C13_OneRoadmapPerSkill ==
  \A r1, r2 \in skill_roadmaps :
     r1.learning_path_id = r2.learning_path_id /\ r1.skill_name = r2.skill_name => r1 = r2

\* C14: no operation run on behalf of the user changes the rows of the second
\* user: they are the same before and after every step
C14_OtherUsersRowsUntouched == [][otherUser' = otherUser]_vars

\* an answer that is an error outcome: a status outside 2xx
ErrorStatus(answer) == answer.status # 200

GenerationFailed(r) == roadmapRun[r].pc = "insert" /\ roadmapRun[r].data # "topics"

\* C16: when roadmap generation has failed, generateRoadmap inserts no
\* skill_roadmaps row, gives the skill no entry in the roadmaps map and shows
\* the error toast
C16_RoadmapFailureSurfaced ==
  [][\A r \in RoadmapRuns :
        GenerationFailed(r) /\ RoadmapInsert(r)
           => /\ skill_roadmaps' = skill_roadmaps
              /\ skillRoadmaps'.roadmaps = skillRoadmaps.roadmaps
              /\ toast' = "Error generating roadmap"]_vars

\* the runs that are on their way to a call of a handler or wait for its answer
CallsPending ==
  (IF resumeRun.pc \in {"text", "invoke"} THEN {"parse-resume"} ELSE {})
  \cup { f \in FetchRuns : fetchRun[f].pc \in {"profile", "paths", "skills", "invoke"} }
  \cup { r \in RoadmapRuns : roadmapRun[r].pc = "invoke" }
  \cup { g \in ContentRuns : contentRun[g].pc \in {"select", "invoke"} }
  \cup { c \in SectionRuns : sectionRun[c].pc = "invoke" }
  \cup (IF quizRun.pc = "invoke" THEN {"quiz"} ELSE {})

\* the steps that are an action of the user: a resume upload, a load of the
\* Dashboard, a click on a skill, opening a subtopic, a click on a section,
\* starting a quiz
UserActs ==
  \/ ResumeUpload
  \/ \E f \in FetchRuns : FetchStart(f)
  \/ \E r \in RoadmapRuns, skillName \in SkillNames : SkillClick(r, skillName)
  \/ \E g \in ContentRuns, i \in DOMAIN Subtopics : OpenLearning(g, i)
  \/ \E c \in SectionRuns, i \in 1..MaxSections : SectionClick(c, i)
  \/ StartQuiz

\* the steps in which the answer of a handler arrives
PathsAnswered == \E keyConfigured \in BOOLEAN, up \in DashboardUpstream : GenInvoke("f1", keyConfigured, up)
RoadmapAnswered == \E keyConfigured \in BOOLEAN, up \in RoadmapUpstream : RoadmapInvoke("r1", keyConfigured, up)
ResumeAnswered == \E keyConfigured \in BOOLEAN, up \in ResumeUpstream : ResumeInvoke(keyConfigured, up)
ContentAnswered ==
  \E keyConfigured \in BOOLEAN, sub \in Range(Subtopics) :
     \E up \in LessonUpstream(sub) : ContentRequest("g1", keyConfigured, up)
SectionAnswered ==
  \E keyConfigured \in BOOLEAN, up \in LessonUpstream(NoSub) : SectionRequest("c1", keyConfigured, up)
QuizCallAnswered == \E keyConfigured \in BOOLEAN, up \in LessonUpstream(NoSub) : QuizRequest(keyConfigured, up)

\* C17: a call to a handler is started by an action of the user only, one per
\* action, and when its answer has arrived, failed or not, the run that made
\* it makes no further call
C17_NoAutomatedRetry ==
  [][/\ CallsPending' \subseteq CallsPending
          \/ (UserActs /\ Cardinality(CallsPending' \ CallsPending) = 1)
     /\ PathsAnswered => "f1" \notin CallsPending'
     /\ RoadmapAnswered => "r1" \notin CallsPending'
     /\ ResumeAnswered => "parse-resume" \notin CallsPending'
     /\ ContentAnswered => "g1" \notin CallsPending'
     /\ SectionAnswered => "c1" \notin CallsPending'
     /\ QuizCallAnswered => "quiz" \notin CallsPending']_vars

\* the generation of paths has failed and no call is on its way
C17_Witness ==
  /\ fetchRun["f1"].outcome = "failed"
  /\ CallsPending = {}

\* C18: the insert of the submitted skills ends the submission with success,
\* and afterwards the stored skills are the ones stored before and the
\* submitted ones, each once, also when some of them were stored already
C18_ResubmittedSkillsAccepted ==
  [][SubmitSkills => /\ submitRun'.outcome = "completed"
                     /\ toast' = "Profile complete!"
                     /\ user_skills' = user_skills \cup submitRun.skills]_vars

\* the sections and the content shown are those generated for the shown subtopic
ShownOfSubtopic ==
  LearningShown =>
    /\ \A i \in DOMAIN learning.sections : learning.sections[i][1] = learning.subtopic
    /\ \A s \in DOMAIN learning.sectionContent : learning.sectionContent[s][1] = learning.subtopic

\* the notes stored under a key are those generated for the subtopic of the key
NotesOfSubtopic ==
  \A t \in topic_progress :
     /\ \A i \in DOMAIN t.notes.sections : t.notes.sections[i][1] = t.subtopic_id
     /\ \A s \in DOMAIN t.notes.content : t.notes.content[s][1] = t.subtopic_id

\* C19: what LearningModule displays for a subtopic and the notes it writes
\* under the key of a subtopic were generated for that same subtopic
C19_ContentOfItsSubtopic == ShownOfSubtopic /\ NotesOfSubtopic


\* the sections whose reply has arrived at a run that still awaits its cache write
AnsweredSections ==
  { sectionRun[c].section :
      c \in { d \in SectionRuns : sectionRun[d].pc = "save" /\ StillMounted(sectionRun[d]) } }

\* a map from section to content holds the content generated for the section
HoldsSection(content, s) == s \in DOMAIN content /\ content[s] = <<s[1], s>>

\* once no request is on its way, sectionContent holds every answered section
AnsweredAreShown ==
  (\A c \in SectionRuns : sectionRun[c].pc # "invoke")
     => \A s \in AnsweredSections : HoldsSection(learning.sectionContent, s)

\* the cache write of a run leaves the section of the run in the notes of the row
SavedAreCached(c) ==
  SectionSave(c) /\ StillMounted(sectionRun[c])
     => \E t \in topic_progress' : /\ t.subtopic_id = sectionRun[c].subtopic
                                   /\ HoldsSection(t.notes.content, sectionRun[c].section)

\* C20: when the replies to handleSectionClick for distinct sections have all
\* arrived, in any order and also for requests that overlap, sectionContent
\* and the notes cached in the progress row hold the content of every one of
\* those sections
C20_LazySectionsRetained ==
  [][AnsweredAreShown' /\ \A c \in SectionRuns : SavedAreCached(c)]_vars


\* the busy flags that are set on the page that is displayed
BusyFlagNames ==
  {"isCheckingProfile", "isLoading (Dashboard)", "isGenerating", "loadingSkill",
   "isLoading (LearningModule)", "isSectionLoading", "isQuizLoading", "isMarkingComplete",
   "isParsingResume", "isSubmitting"}
BusyFlags ==
  { n \in BusyFlagNames :
      CASE n = "isCheckingProfile" -> index.isCheckingProfile
        [] n = "isLoading (Dashboard)" ->
             index.view = "dashboard" /\ ~index.isCheckingProfile /\ dashboard.isLoading
        [] n = "isGenerating" ->
             index.view = "dashboard" /\ ~index.isCheckingProfile /\ dashboard.isGenerating
        [] n = "loadingSkill" -> RoadmapsShown /\ skillRoadmaps.loadingSkill # NoSkill
        [] n = "isLoading (LearningModule)" -> LearningShown /\ learning.isLoading
        [] n = "isSectionLoading" -> LearningShown /\ learning.isSectionLoading
        [] n = "isQuizLoading" -> LearningShown /\ learning.isQuizLoading
        [] n = "isMarkingComplete" -> LearningShown /\ learning.isMarkingComplete
        [] n = "isParsingResume" -> OnboardingShown /\ onboarding.isParsingResume
        [] n = "isSubmitting" -> OnboardingShown /\ onboarding.isSubmitting }

\* C21: every started operation eventually clears its busy flag, whether it
\* succeeds or fails: no flag stays set on the displayed page from some point
\* on (for a flag F this is F ~> ~F)
C21_BusyFlagsCleared == \A n \in BusyFlagNames : []<>(n \notin BusyFlags)

\* roadmap generation has failed and no flag is left set
C21_Witness == roadmapRun["r1"].outcome = "failed" /\ BusyFlags = {}


C23_SignedOutIsLanding ==
  (~auth.user /\ ~auth.loading /\ auth.effectRun) => index.view = "landing"


(***************************************************************************)
(* The profile check of Index on every stored profile and every selection  *)
(* among the stored learning paths, either query failing or not.           *)
(***************************************************************************)
InitCheck ==
  /\ toast = "none"
  /\ index = [view |-> "landing", selectedPath |-> NoId, isCheckingProfile |-> TRUE]
  /\ checkRun = [pc |-> "profile"]
  /\ profiles \in { [exists |-> e, full_name |-> <<"a">>, dream_job |-> JobTitle,
                     onboarding_completed |-> c] : e, c \in BOOLEAN }
  /\ user_skills = {}
  /\ \E selected \in SUBSET {"recommended", "easier"}, gen \in 0..1 :
        /\ genCount = gen
        /\ learning_paths = IF gen = 0 THEN {}
                            ELSE { [r EXCEPT !.is_selected = r.path_type \in selected]
                                     : r \in PathRows(1, WellFormedPaths) }
  /\ skill_roadmaps = {}
  /\ topic_progress = {}
  /\ dashboard = DashboardMounted
  /\ fetchRun = [f \in FetchRuns |-> IdleFetch]
  /\ selectRun = [s \in SelectRuns |-> IdleSelect]
  /\ resetRun = IdleReset
  /\ counters = [loads |-> 0, clicks |-> 0, resets |-> 0, navs |-> 0]
  /\ learning = LearningMounted
  /\ contentRun = [g \in ContentRuns |-> IdleContent]
  /\ sectionRun = [c \in SectionRuns |-> IdleSection]
  /\ quizRun = IdleQuiz
  /\ markRun = IdleMark
  /\ onboarding = OnboardingMounted
  /\ resumeRun = IdleResume
  /\ submitRun = IdleSubmit
  /\ skillRoadmaps = RoadmapsMounted
  /\ existingRun = IdleExisting
  /\ roadmapRun = [r \in RoadmapRuns |-> IdleRoadmap]
  /\ otherUser = Tables
  /\ resetDataRun = IdleResetData
  /\ auth = SignedIn

NextCheck ==
  \/ CheckSteps
  \/ FetchSteps
  \/ ContinueToRoadmaps
  \/ RoadmapsBack
  \/ \E t \in Texts : SetFullName(t)
  \/ Continue
  \/ Back

SpecCheck == InitCheck /\ [][NextCheck]_vars

\* C24: when the profile check completes, the onboarding is shown if the profile is
\* missing, not onboarded or its lookup failed, the roadmaps of the stored selected
\* path if an onboarded user has a selected path, and the dashboard otherwise
C24_CheckRoutes ==
  [][\A error \in BOOLEAN :
       /\ CheckProfile(error) /\ checkRun'.pc = "idle"
            => /\ error \/ ~profiles.exists \/ ~profiles.onboarding_completed
               /\ index'.view = "onboarding"
       /\ CheckProfile(error) /\ checkRun'.pc = "paths"
            => ~error /\ profiles.exists /\ profiles.onboarding_completed
       /\ CheckPaths(error)
            => IF \E r \in learning_paths : r.is_selected
                 THEN /\ index'.view = "roadmaps"
                      /\ \E r \in learning_paths : r.is_selected /\ r.id = index'.selectedPath
                 ELSE index'.view = "dashboard"]_vars


\* the job that canProceed saw on step 3: a chosen dreamJob, else the custom text
AcceptedJob(o) == IF Len(o.dreamJob) > 0 THEN o.dreamJob ELSE o.customJob

\* C25: handleSubmit sends the job with which canProceed let the user pass the job
\* step, and when it succeeds the stored dream_job is that job and is not empty
C25_StoredDreamJob ==
  [][/\ SubmitClick => submitRun'.dream_job = AcceptedJob(onboarding)
     /\ (SubmitProfile \/ SubmitSkills) /\ submitRun'.outcome = "completed"
          => /\ profiles'.dream_job # <<>>
             /\ profiles'.dream_job = submitRun.dream_job]_vars


\* C26: a handleSubmit that ends with the error toast does not leave the stored
\* profile with onboarding_completed = true
C26_FailedSubmitNotOnboarded ==
  [][(SubmitProfile \/ SubmitSkills) /\ submitRun'.outcome = "failed"
       => /\ toast' = "Error saving profile"
          /\ index'.view = "onboarding"
          /\ ~profiles'.onboarding_completed]_vars


\* C27: when a confirmed full wipe reloads the page, the user has no row left in
\* any of the five tables, and the profile check that follows finds no onboarded profile
C27_FullWipeLeavesNoRow ==
  [][ResetReload /\ resetRun.isFullWipe
       => /\ ~profiles'.exists
          /\ user_skills' = {} /\ learning_paths' = {}
          /\ skill_roadmaps' = {} /\ topic_progress' = {}
          /\ checkRun'.pc = "profile"]_vars


NextPercent ==
  \/ \E i \in DOMAIN Subtopics : OpenLearning("g1", i)
  \/ LearningBack
  \/ ContentSelect("g1")
  \/ \E sub \in Range(Subtopics) : \E reply \in ContentReplies(sub) : ContentInvoke("g1", reply)
  \/ ContentSave("g1")
  \/ CheckCompletion("g1")
  \/ StartQuiz
  \/ \E reply \in ShortQuizReplies : QuizInvoke(reply)
  \/ \E a \in Options : AnswerSelect(1, a)
  \/ SubmitQuiz
  \/ MarkUpsert
  \/ FetchProgress

SpecPercent == InitLearning /\ [][NextPercent]_vars

\* the subtopics of the roadmap of a skill that have a completed row
CompletedSubtopics(skillName) ==
  { sub \in Range(Subtopics) :
      \E t \in topic_progress, r \in skill_roadmaps :
         /\ r.skill_name = skillName /\ t.roadmap_id = r.id
         /\ t.topic_id = TopicId /\ t.subtopic_id = sub /\ t.is_completed }

\* the rounded share of the subtopics of the roadmap that are completed
PercentOfSubtopics(completed) == MathRound(100 * Cardinality(completed), Len(Subtopics))

====
